---- MODULE Spec2Model ----
(***************************************************************************)
(* Model of port/script.py: the Google Search data-donation script.        *)
(*                                                                         *)
(* Python values are tagged records [t |-> <type>, v |-> <payload>].       *)
(* A Python str is a sequence of tokens: a token is a delimiter character  *)
(* (" ", ":", "/", "?", "=", "&", "+", ".", "#"), a percent escape         *)
(* ("%2F"), or a word that holds none of these.  The string operations of  *)
(* the script (startswith, endswith, slicing, lower, replace, find,        *)
(* urlparse, parse_qs, unquote) are defined on token sequences.            *)
(***************************************************************************)
EXTENDS Integers, Sequences, FiniteSets, TLC

(***************************************************************************)
(* str                                                                     *)
(***************************************************************************)

\* s.startswith(p)
startswith(s, p) == Len(p) <= Len(s) /\ SubSeq(s, 1, Len(p)) = p

\* s.endswith(p)
endswith(s, p) == Len(p) <= Len(s) /\ SubSeq(s, Len(s) - Len(p) + 1, Len(s)) = p

\* s[n:]
slice_from(s, n) == SubSeq(s, n + 1, Len(s))

\* s[:-n]
slice_to_minus(s, n) == SubSeq(s, 1, Len(s) - n)

\* The 1-based index of the first token of s that lies in toks and is at or
\* after position from; Len(s) + 1 when there is none.
find_any(s, toks, from) ==
    LET hits == {i \in from..Len(s) : s[i] \in toks}
    IN  IF hits = {} THEN Len(s) + 1
        ELSE CHOOSE i \in hits : \A j \in hits : i <= j

\* tok in s (substring test, for a one-token needle)
contains(s, tok) == \E i \in 1..Len(s) : s[i] = tok

\* The tokens of the model's alphabet that hold an upper-case letter, with
\* their lower-case forms; every other token is its own lower-case form.
UpperTokens ==
    [JSON |-> "json", Json |-> "json", HTML |-> "html", HTTPS |-> "https",
     Takeout |-> "takeout", MyActivity |-> "myactivity", Google |-> "google",
     Index |-> "index", WWW |-> "www"]

lower_token(tok) == IF tok \in DOMAIN UpperTokens THEN UpperTokens[tok] ELSE tok

\* s.lower()
lower(s) == [i \in 1..Len(s) |-> lower_token(s[i])]

(***************************************************************************)
(* urllib.parse                                                            *)
(***************************************************************************)

\* Tokens that hold a character outside urllib's scheme_chars (letters,
\* digits and "+-."): such a token before the first ":" means no scheme.
NonSchemeTokens ==
    {" ", "/", "?", "#", "=", "&", ":", "[", "]", "%2F", "%3A", "%3F", "%3D",
     "%26", "%20", "%2B", "%C3%BC", "uuml"}

\* Tokens whose first character is not an ASCII letter.
NonAlphaStartTokens == NonSchemeTokens \cup {".", "+", "-", "80", "2025"}

\* urllib.parse.urlparse on a str.  err is TRUE where urlsplit raises
\* ValueError ("Invalid IPv6 URL": a bracket without its partner in netloc).
urlparse(url) ==
    LET i         == find_any(url, {":"}, 1)
        hasScheme == /\ i > 1
                     /\ i <= Len(url)
                     /\ url[1] \notin NonAlphaStartTokens
                     /\ \A j \in 1..(i - 1) : url[j] \notin NonSchemeTokens
        scheme    == IF hasScheme THEN lower(SubSeq(url, 1, i - 1)) ELSE <<>>
        \* what follows the netloc: path, "?" query, "#" fragment
        split_path(netloc, rest2) ==
            LET h     == find_any(rest2, {"#"}, 1)
                rest3 == SubSeq(rest2, 1, h - 1)
                q     == find_any(rest3, {"?"}, 1)
            IN  [err      |-> contains(netloc, "[") # contains(netloc, "]"),
                 scheme   |-> scheme,
                 netloc   |-> netloc,
                 path     |-> SubSeq(rest3, 1, q - 1),
                 query    |-> slice_from(rest3, q),
                 fragment |-> slice_from(rest2, h)]
        \* what follows the scheme: "//" netloc, then the rest
        split_netloc(rest1) ==
            LET hasNetloc == Len(rest1) >= 2 /\ rest1[1] = "/" /\ rest1[2] = "/"
                delim     == find_any(rest1, {"/", "?", "#"}, 3)
            IN  split_path(IF hasNetloc THEN SubSeq(rest1, 3, delim - 1) ELSE <<>>,
                           IF hasNetloc THEN slice_from(rest1, delim - 1) ELSE rest1)
    IN  split_netloc(IF hasScheme THEN slice_from(url, i) ELSE url)

\* What a percent escape (or "+", after parse_qsl's replace('+', ' '))
\* decodes to; "%C3%BC" is the UTF-8 encoding of u-umlaut, the token "uuml".
Escapes ==
    [x \in {"+", "%20", "%2F", "%3A", "%3F", "%3D", "%26", "%2B", "%C3%BC"} |->
        CASE x = "+"      -> " "
          [] x = "%20"    -> " "
          [] x = "%2F"    -> "/"
          [] x = "%3A"    -> ":"
          [] x = "%3F"    -> "?"
          [] x = "%3D"    -> "="
          [] x = "%26"    -> "&"
          [] x = "%2B"    -> "+"
          [] x = "%C3%BC" -> "uuml"]

\* unquote(s.replace('+', ' '))
unquote_plus(s) ==
    [i \in 1..Len(s) |-> IF s[i] \in DOMAIN Escapes THEN Escapes[s[i]] ELSE s[i]]

\* s.split(sep): the pieces of s between the occurrences of sep.
RECURSIVE split(_, _)
split(s, sep) ==
    LET i == find_any(s, {sep}, 1)
    IN  IF i > Len(s) THEN <<s>>
        ELSE <<SubSeq(s, 1, i - 1)>> \o split(slice_from(s, i), sep)

\* urllib.parse.parse_qsl(query): the (name, value) pairs of the fields that
\* hold a "=" and a non-blank value (keep_blank_values is False), decoded.
RECURSIVE qsl_pairs(_)
qsl_pairs(fields) ==
    IF fields = <<>> THEN <<>>
    ELSE LET nv   == Head(fields)
             i    == find_any(nv, {"="}, 1)
             keep == i <= Len(nv) /\ Len(slice_from(nv, i)) > 0
         IN  (IF keep
              THEN <<[name  |-> unquote_plus(SubSeq(nv, 1, i - 1)),
                      value |-> unquote_plus(slice_from(nv, i))]>>
              ELSE <<>>) \o qsl_pairs(Tail(fields))

parse_qsl(query) == qsl_pairs(split(query, "&"))

\* urllib.parse.parse_qs(query): name -> the list of its values, in order.
parse_qs(query) ==
    LET group(pairs) ==
            LET names == {pairs[i].name : i \in 1..Len(pairs)}
                RECURSIVE vals(_, _)
                vals(n, k) ==
                    IF k > Len(pairs) THEN <<>>
                    ELSE (IF pairs[k].name = n THEN <<pairs[k].value>> ELSE <<>>)
                         \o vals(n, k + 1)
            IN  [n \in names |-> vals(n, 1)]
    IN  group(parse_qsl(query))

(***************************************************************************)
(* Python values                                                           *)
(***************************************************************************)

PyNone == [t |-> "NoneType"]

PyInt(n) == [t |-> "int", v |-> n]

PyStr(tokens) == [t |-> "str", v |-> tokens]

PyList(seq) == [t |-> "list", v |-> seq]

PyDict(f) == [t |-> "dict", v |-> f]

\* A str that holds an ISO-8601 timestamp: its civil fields and its zone
\* designator tz ("" for none, "Z", or "+hh:mm" / "-hh:mm").
PyIsoTime(y, mo, d, h, mi, s, tz) ==
    [t |-> "isotime",
     v |-> [y |-> y, mo |-> mo, d |-> d, h |-> h, mi |-> mi, s |-> s, tz |-> tz]]

\* key in item.  "TypeError" where item is not a container.
py_in(key, item) ==
    CASE item.t = "dict" -> IF key \in DOMAIN item.v THEN "True" ELSE "False"
      [] item.t = "str"  -> IF contains(item.v, key) THEN "True" ELSE "False"
      [] item.t = "list" -> IF \E i \in 1..Len(item.v) : item.v[i] = PyStr(<<key>>)
                            THEN "True" ELSE "False"
      [] OTHER           -> "TypeError"

(***************************************************************************)
(* Timestamps (pandas)                                                     *)
(***************************************************************************)

SecondsPerMinute == 60

SecondsPerHour == 60 * SecondsPerMinute

SecondsPerDay == 24 * SecondsPerHour

\* Days from 1970-01-01 to the civil date y-mo-d (proleptic Gregorian).
days_from_civil(y, mo, d) ==
    LET yy  == IF mo <= 2 THEN y - 1 ELSE y
        era == yy \div 400
        yoe == yy - era * 400
        mp  == IF mo > 2 THEN mo - 3 ELSE mo + 9
        doy == (153 * mp + 2) \div 5 + d - 1
        doe == yoe * 365 + yoe \div 4 - yoe \div 100 + doy
    IN  era * 146097 + doe - 719468

\* The zone designators of the model and their offsets from UTC in seconds;
\* a zone-less timestamp is taken as UTC where an instant is needed.
utcoffset(tz) ==
    CASE tz = ""       -> 0
      [] tz = "Z"      -> 0
      [] tz = "+00:00" -> 0
      [] tz = "+01:00" -> SecondsPerHour
      [] tz = "+02:00" -> 2 * SecondsPerHour
      [] tz = "+09:00" -> 9 * SecondsPerHour
      [] tz = "-05:00" -> -5 * SecondsPerHour

\* Seconds of civil time since 2025-01-01T00:00:00.
civil_seconds(ts) ==
    (days_from_civil(ts.y, ts.mo, ts.d) - days_from_civil(2025, 1, 1)) * SecondsPerDay
    + ts.h * SecondsPerHour + ts.mi * SecondsPerMinute + ts.s

\* The instant of a timestamp: seconds since 2025-01-01T00:00:00Z
\* (tz_localize("UTC") of a zone-less timestamp, then tz_convert: the instant
\* is what the comparisons of timestamps compare).
instant(ts) == civil_seconds(ts) - utcoffset(ts.tz)

\* The offset of the zone "CET" (CET in winter, CEST in summer) on a civil
\* date of 2025: summer time runs from March 30 to October 26.
cet_utcoffset(mo, d) ==
    IF (mo > 3 \/ (mo = 3 /\ d >= 30)) /\ (mo < 10 \/ (mo = 10 /\ d < 26))
    THEN 2 * SecondsPerHour
    ELSE SecondsPerHour

\* pd.to_datetime("2025-mo-d").tz_localize("CET"), as an instant.
cet_midnight(mo, d) ==
    civil_seconds([y |-> 2025, mo |-> mo, d |-> d, h |-> 0, mi |-> 0, s |-> 0])
    - cet_utcoffset(mo, d)

start_dt == cet_midnight(1, 12)

\* end_dt without the added day: the window ends where March 2 begins.
end_dt_start_of_march_2 == cet_midnight(3, 2)

end_dt == cet_midnight(3, 2) + SecondsPerDay

\* pd.to_datetime(x): [exc, ts].  A str that is no timestamp raises
\* ValueError; None comes back as None, whose .tz raises AttributeError; an
\* int counts nanoseconds from 1970-01-01.
to_datetime(x) ==
    CASE x.t = "isotime"  -> [exc |-> "none", ts |-> x.v]
      [] x.t = "str"      -> [exc |-> "ValueError", ts |-> <<>>]
      [] x.t = "NoneType" -> [exc |-> "AttributeError", ts |-> <<>>]
      [] x.t = "int"      -> [exc |-> "none",
                              ts  |-> [y |-> 1970, mo |-> 1, d |-> 1, h |-> 0,
                                       mi |-> 0, s |-> 0, tz |-> ""]]

Digits == <<"0", "1", "2", "3", "4", "5", "6", "7", "8", "9">>

\* str(n) for n >= 0: the decimal digits of n.
RECURSIVE str(_)
str(n) == IF n < 10 THEN <<Digits[n + 1]>>
          ELSE str(n \div 10) \o <<Digits[(n % 10) + 1]>>

\* n as at least w digits, zero-padded ("%d", "%m": w = 2; "%Y": w = 4)
zfill(n, w) ==
    LET s == str(n)
    IN  [i \in 1..(IF w > Len(s) THEN w - Len(s) ELSE 0) |-> "0"] \o s

\* timestamp.strftime("%d-%m-%Y"): the civil date in the timestamp's own zone
strftime(ts) == zfill(ts.d, 2) \o <<"-">> \o zfill(ts.mo, 2) \o <<"-">> \o zfill(ts.y, 4)

(***************************************************************************)
(* pandas.DataFrame                                                        *)
(***************************************************************************)

\* pd.DataFrame(rows), rows a list of dicts that all have the keys `keys`
\* in this order: the columns are those of the rows, none for an empty list.
DataFrame(rows, keys) ==
    [columns |-> IF rows = <<>> THEN <<>> ELSE keys, rows |-> rows]

\* reindex left out: the frame keeps the columns its rows gave it.
reindex_left_out(df, cols) == df

\* df.reindex(columns=cols): a column the frame did not have is filled
\* with NaN.
reindex(df, cols) ==
    LET old == {df.columns[i] : i \in 1..Len(df.columns)}
        new == {cols[i] : i \in 1..Len(cols)}
    IN  [columns |-> cols,
         rows    |-> [i \in 1..Len(df.rows) |->
                        [c \in new |-> IF c \in old THEN df.rows[i][c] ELSE [t |-> "float", v |-> "nan"]]]]

(***************************************************************************)
(* URL classifier                                                          *)
(***************************************************************************)

WwwGoogle == <<"www", ".", "google", ".">>

\* is_google_search_url(url): [is_search, query].  url is a Python value.
is_google_search_url(url) ==
    LET no == [is_search |-> FALSE, query |-> PyNone]
        with_q(query_params) ==
            IF <<"q">> \in DOMAIN query_params
            THEN [is_search |-> TRUE, query |-> PyStr(query_params[<<"q">>][1])]
            ELSE no
        classify(parsed_url) ==
            IF parsed_url.err THEN no  \* ValueError, caught
            ELSE IF parsed_url.netloc = <<>> THEN no
            ELSE IF /\ startswith(parsed_url.netloc, WwwGoogle)
                    /\ parsed_url.path = <<"/", "search">>
                 THEN with_q(parse_qs(parsed_url.query))
                 ELSE no
    IN  CASE url.t = "str" ->
               IF url.v = <<>> THEN no     \* not url
               ELSE classify(urlparse(url.v))
          \* None and 0 are falsy; urlparse of any other value raises
          \* AttributeError or TypeError, caught
          [] OTHER -> no

\* resolve_google_redirect(url), url a str (a token sequence): [exc, url].
resolve_google_redirect(url) ==
    LET with_q(query) ==
            IF <<"q">> \in DOMAIN query
            THEN [exc |-> "none", url |-> query[<<"q">>][1]]
            ELSE [exc |-> "none", url |-> url]
        resolve(parsed) ==
            IF parsed.err THEN [exc |-> "ValueError", url |-> url]
            ELSE IF /\ startswith(parsed.netloc, WwwGoogle)
                    /\ parsed.path = <<"/", "url">>
                 THEN with_q(parse_qs(parsed.query))
                 ELSE [exc |-> "none", url |-> url]
    IN  resolve(urlparse(url))

\* netloc.replace("www.", "", 1)
replace_www_once(netloc) ==
    LET hits == {i \in 1..(Len(netloc) - 1) : netloc[i] = "www" /\ netloc[i + 1] = "."}
        i    == CHOOSE k \in hits : \A j \in hits : k <= j
    IN  IF hits = {} THEN netloc
        ELSE SubSeq(netloc, 1, i - 1) \o slice_from(netloc, i + 1)

\* format_title(title), title a str (a token sequence)
format_title(title) ==
    LET format(parsed) ==
            IF parsed.err THEN title
            ELSE IF parsed.netloc # <<>> /\ parsed.scheme \in {<<"http">>, <<"https">>}
                 THEN replace_www_once(parsed.netloc)
                 ELSE title
    IN  format(urlparse(title))

\* is_google_homepage(url), url a Python value: [exc, value].  urlparse(None)
\* is a bytes result, whose netloc.startswith(str) raises TypeError;
\* urlparse of an int raises AttributeError.
is_google_homepage(url) ==
    LET homepage(parsed) ==
            IF parsed.err THEN [exc |-> "ValueError", value |-> FALSE]
            ELSE [exc   |-> "none",
                  value |-> /\ startswith(parsed.netloc, WwwGoogle)
                            /\ parsed.path \in {<<"/">>, <<>>}]
    IN  CASE url.t = "NoneType" -> [exc |-> "TypeError", value |-> FALSE]
          [] url.t = "str"      -> homepage(urlparse(url.v))
          [] OTHER              -> [exc |-> "AttributeError", value |-> FALSE]

(***************************************************************************)
(* extract_search_data                                                     *)
(***************************************************************************)

RequiredKeys == <<"header", "title", "titleUrl", "time", "products">>

SearchColumns == <<"Datum", "Nummer", "Suchbegriff">>

ClickColumns == <<"Datum", "Nummer", "Suchergebnis", "Link">>

Visited == <<"Visited", " ">>

Aufgerufen == <<" ", "aufgerufen">>

Viewed == <<"Viewed", " ">>

Angesehen == <<" ", "angesehen">>

\* all(key in item for key in [...]): "True", "False" or "TypeError"
all_keys_in(item) ==
    IF py_in(RequiredKeys[1], item) = "TypeError" THEN "TypeError"
    ELSE IF \A k \in 1..Len(RequiredKeys) : py_in(RequiredKeys[k], item) = "True"
         THEN "True" ELSE "False"

\* The first loop without its two rewrites of the title.
strip_marker_title_kept(item) == item

\* The title rewrite of the first loop: the item with a leading "Visited "
\* or else a trailing " aufgerufen" cut from its title (title is a str).
strip_marker(item) ==
    LET title == item.v.title.v
    IN  IF startswith(title, Visited)
        THEN [item EXCEPT !.v.title = PyStr(slice_from(title, Len(Visited)))]
        ELSE IF endswith(title, Aufgerufen)
             THEN [item EXCEPT !.v.title = PyStr(slice_to_minus(title, Len(Aufgerufen)))]
             ELSE item

\* Whether the first loop's third branch is taken: neither rewrite applied
\* and the title is a "Viewed" one.
skip_viewed(title) ==
    /\ ~startswith(title, Visited)
    /\ ~endswith(title, Aufgerufen)
    /\ (startswith(title, Viewed) \/ endswith(title, Angesehen))

\* One pass of the first loop's body over `item`: [outcome, exc, item] with
\* outcome "keep" (appended to records), "skip" (continue) or "raise" (an
\* exception leaves extract_search_data), and the item as the body left it.
\* ValueError and AttributeError inside the try are caught (skip); the key
\* test is outside the try, and TypeError is not caught.
filter_item(item) ==
    LET skip      == [outcome |-> "skip", exc |-> "none", item |-> item]
        present   == all_keys_in(item)
        parsed    == to_datetime(item.v.time)
        timestamp == instant(parsed.ts)
        title     == item.v.title
        rewritten == strip_marker(item)
        checked(homepage) ==
            IF homepage.exc = "TypeError"
            THEN [outcome |-> "raise", exc |-> "TypeError", item |-> rewritten]
            ELSE IF homepage.exc # "none" \/ homepage.value
            THEN [outcome |-> "skip", exc |-> "none", item |-> rewritten]
            ELSE [outcome |-> "keep", exc |-> "none", item |-> rewritten]
    IN  IF present = "TypeError"
        THEN [outcome |-> "raise", exc |-> "TypeError", item |-> item]
        ELSE IF present = "False" THEN skip
        \* item["time"] on a str or a list: TypeError
        ELSE IF item.t # "dict"
        THEN [outcome |-> "raise", exc |-> "TypeError", item |-> item]
        ELSE IF parsed.exc # "none" THEN skip
        ELSE IF timestamp < start_dt \/ timestamp > end_dt THEN skip
        \* title.startswith on a value that is no str: AttributeError
        ELSE IF title.t # "str" THEN skip
        ELSE IF skip_viewed(title.v) THEN skip
        ELSE checked(is_google_homepage(item.v.titleUrl))

\* The first loop from position i on: data is the list as left so far, src
\* the positions of the items appended to records so far.
RECURSIVE filter_loop(_, _, _)
filter_loop(data, i, src) ==
    IF i > Len(data) THEN [exc |-> "none", data |-> data, src |-> src]
    ELSE LET next(r, left) ==
                 CASE r.outcome = "raise" -> [exc |-> r.exc, data |-> left, src |-> src]
                   [] r.outcome = "skip"  -> filter_loop(left, i + 1, src)
                   [] r.outcome = "keep"  -> filter_loop(left, i + 1, Append(src, i))
             body(r) == next(r, [data EXCEPT ![i] = r.item])
         IN  body(filter_item(data[i]))

\* build_row classifying and linking titleUrl as it stands, the redirect
\* not resolved.
build_row_unresolved(item, i) ==
    LET timestamp == to_datetime(item.v.time).ts
        date      == strftime(timestamp)
        index     == str(i)
        row(final_url, found) ==
            IF found.is_search
            THEN [table |-> "searches",
                  row   |-> [Datum |-> PyStr(date), Nummer |-> PyStr(index),
                             Suchbegriff |-> found.query]]
            ELSE [table |-> "clicks",
                  row   |-> [Datum |-> PyStr(date), Nummer |-> PyStr(index),
                             Suchergebnis |-> PyStr(format_title(item.v.title.v)),
                             Link |-> PyStr(final_url)]]
        classified(final_url) == row(final_url, is_google_search_url(PyStr(final_url)))
    IN  classified(item.v.titleUrl.v)

\* The second loop's body for the i-th record: the table the row goes to,
\* and the row.
build_row(item, i) ==
    LET timestamp == to_datetime(item.v.time).ts
        date      == strftime(timestamp)
        index     == str(i)
        row(final_url, found) ==
            IF found.is_search
            THEN [table |-> "searches",
                  row   |-> [Datum |-> PyStr(date), Nummer |-> PyStr(index),
                             Suchbegriff |-> found.query]]
            ELSE [table |-> "clicks",
                  row   |-> [Datum |-> PyStr(date), Nummer |-> PyStr(index),
                             Suchergebnis |-> PyStr(format_title(item.v.title.v)),
                             Link |-> PyStr(final_url)]]
        classified(final_url) == row(final_url, is_google_search_url(PyStr(final_url)))
    IN  classified(resolve_google_redirect(item.v.titleUrl.v).url)

\* rows_of with a counter per table: the n-th row of a table is numbered n.
RECURSIVE rows_numbered_from(_, _, _, _)
rows_numbered_from(records, table, i, n) ==
    IF i > Len(records) THEN <<>>
    ELSE LET put(b) ==
                 IF b.table = table
                 THEN <<b.row>> \o rows_numbered_from(records, table, i + 1, n + 1)
                 ELSE rows_numbered_from(records, table, i + 1, n)
         IN  put(build_row(records[i], n))

rows_of_counter_per_table(records, table, i) == rows_numbered_from(records, table, i, 1)

\* The rows of one table, in the order of records.
RECURSIVE rows_of(_, _, _)
rows_of(records, table, i) ==
    IF i > Len(records) THEN <<>>
    ELSE LET put(b) == (IF b.table = table THEN <<b.row>> ELSE <<>>)
                        \o rows_of(records, table, i + 1)
         IN  put(build_row(records[i], i))

NoFrame == [columns |-> <<>>, rows |-> <<>>]

\* extract_search_data(data), data a Python value.  exc is "none" where the
\* call returns (searches_df, clicks_df) and names the exception where it
\* raises; data is the argument as the call leaves it (the first loop
\* rewrites titles in place); src gives, for each record numbered 1..N, its
\* position in the argument.
extract_search_data(data) ==
    LET tables(first, records) ==
            [exc |-> "none", data |-> PyList(first.data), src |-> first.src,
             searches_df |-> reindex(DataFrame(rows_of(records, "searches", 1),
                                               SearchColumns), SearchColumns),
             clicks_df   |-> reindex(DataFrame(rows_of(records, "clicks", 1),
                                               ClickColumns), ClickColumns)]
        second_loop(first) ==
            IF first.exc # "none"
            THEN [exc |-> first.exc, data |-> PyList(first.data), src |-> first.src,
                  searches_df |-> NoFrame, clicks_df |-> NoFrame]
            ELSE tables(first, [k \in 1..Len(first.src) |-> first.data[first.src[k]]])
    IN  IF data.t # "list"
        THEN [exc |-> "none", data |-> data, src |-> <<>>,
              searches_df |-> [columns |-> SearchColumns, rows |-> <<>>],
              clicks_df   |-> [columns |-> ClickColumns, rows |-> <<>>]]
        ELSE second_loop(filter_loop(data.v, 1, <<>>))

(***************************************************************************)
(* Archive members                                                         *)
(*                                                                         *)
(* A member of the zip archive is [name, state, text]: its name (a str),   *)
(* whether it can be read ("ok"), fails its CRC check ("corrupt": open or  *)
(* read raises BadZipFile) or holds bytes that are no UTF-8 ("not_utf8"),  *)
(* and the text its bytes hold:                                            *)
(*   [kind |-> "json", value |-> v]   the JSON text of the Python value v  *)
(*   [kind |-> "html", cells |-> c, other |-> s]   an HTML document with   *)
(*       the div.outer-cell blocks c and the further visible text s        *)
(*   [kind |-> "text", v |-> s]       any other text                       *)
(* A block is [header, content]: the text of its .header-cell (None when   *)
(* it has none) and its .content-cell (None when it has none), which is    *)
(* [href, parts]: the href of its first anchor (None when there is none)   *)
(* and its stripped strings.  A stripped string is a str, or a timestamp   *)
(* text [t |-> "htmltime", v |-> [d, mo, y, h, mi, s, tzname]] as in       *)
(* "09.02.2025, 15:39:34 MEZ".                                             *)
(***************************************************************************)

\* "Google" in <the str of a Python value>
RECURSIVE value_has_token(_, _)
value_has_token(x, tok) ==
    CASE x.t = "str"  -> contains(x.v, tok)
      [] x.t = "list" -> \E i \in 1..Len(x.v) : value_has_token(x.v[i], tok)
      [] x.t = "dict" -> \/ tok \in DOMAIN x.v
                         \/ \E k \in DOMAIN x.v : value_has_token(x.v[k], tok)
      [] OTHER        -> FALSE

\* tok in content, content the text of a member
text_has_token(text, tok) ==
    CASE text.kind = "json" -> value_has_token(text.value, tok)
      [] text.kind = "text" -> contains(text.v, tok)
      [] text.kind = "html" ->
           \/ contains(text.other, tok)
           \/ \E i \in 1..Len(text.cells) :
                LET cell == text.cells[i]
                IN  \/ value_has_token(cell.header, tok)
                    \/ /\ cell.content.t = "content"
                       /\ \/ value_has_token(cell.content.href, tok)
                          \/ \E k \in 1..Len(cell.content.parts) :
                               value_has_token(cell.content.parts[k], tok)

(***************************************************************************)
(* parse_google_search_json                                                *)
(***************************************************************************)

SearchProducts == {PyStr(<<"Search">>), PyStr(<<"Google", " ", "Suche">>)}

\* any(product in ["Search", "Google Suche"] for product in products):
\* "True", "False" or "TypeError" (products is not iterable).
any_search_product(products) ==
    CASE products.t = "list" ->
           IF \E i \in 1..Len(products.v) : products.v[i] \in SearchProducts
           THEN "True" ELSE "False"
      \* the keys of a dict
      [] products.t = "dict" ->
           IF \E k \in DOMAIN products.v : PyStr(<<k>>) \in SearchProducts
           THEN "True" ELSE "False"
      \* the characters of a str: none is a product name
      [] products.t = "str" -> "False"
      [] OTHER -> "TypeError"

\* What json.load(file_obj) raises before it decodes JSON, file_obj a file
\* in state `state` holding `text`: reading a corrupt zip member raises
\* BadZipFile, bytes that are not UTF-8 raise UnicodeDecodeError; neither
\* is a JSONDecodeError.
json_load(file_obj) ==
    CASE file_obj.state = "corrupt"  -> "BadZipFile"
      [] file_obj.state = "not_utf8" -> "UnicodeDecodeError"
      [] OTHER                       -> "none"

\* parse_google_search_json(file_obj): [exc, data], data the decoded list
\* or None.
parse_google_search_json(file_obj) ==
    LET text       == file_obj.text
        data       == text.value
        first_item == data.v[1]
        returns(value) == [exc |-> "none", data |-> value]
    IN  IF json_load(file_obj) # "none"
        THEN [exc |-> json_load(file_obj), data |-> PyNone]
        ELSE IF text.kind # "json" THEN returns(PyNone)                \* JSONDecodeError
        ELSE IF ~(data.t = "list" /\ Len(data.v) > 0) THEN returns(PyNone)
        \* False, or TypeError
        ELSE IF all_keys_in(first_item) # "True" THEN returns(PyNone)
        \* first_item["products"]: TypeError
        ELSE IF first_item.t # "dict" THEN returns(PyNone)
        ELSE IF any_search_product(first_item.v.products) = "True" THEN returns(data)
        ELSE returns(PyNone)

(***************************************************************************)
(* parse_google_search_html                                                *)
(***************************************************************************)

\* The offset of german_tz (Europe/Berlin) on a civil date, as isoformat
\* writes it.
german_tz_designator(mo, d) ==
    IF cet_utcoffset(mo, d) = SecondsPerHour THEN "+01:00" ELSE "+02:00"

\* dateutil.parser.parse(part, tzinfos={"MEZ": german_tz}, dayfirst=True)
\* followed by isoformat(): [exc, time].  A str that is no timestamp raises
\* ParserError, or OverflowError where it is a number dateutil reads as a
\* year that datetime.replace cannot take (year=8335394550 is no C int);
\* "MEZ" is german_tz, "UTC" is UTC, a text without a zone name gives a
\* zone-less timestamp.
parse_html_time(part) ==
    LET f  == part.v
        tz == CASE f.tzname = "MEZ" -> german_tz_designator(f.mo, f.d)
                [] f.tzname = "UTC" -> "+00:00"
                [] OTHER            -> ""
    IN  IF part.t = "htmltime"
        THEN [exc |-> "none", time |-> PyIsoTime(f.y, f.mo, f.d, f.h, f.mi, f.s, tz)]
        ELSE IF part.v = <<"08335394550">> THEN [exc |-> "OverflowError", time |-> PyNone]
        ELSE [exc |-> "ParserError", time |-> PyNone]

\* The body of the loop over the outer cells: [exc, activities], the
\* activities of one cell (one or none), or the exception that neither
\* except clause of the body takes.
parse_cell(cell) ==
    LET header    == cell.header
        content   == cell.content
        title_url == IF content.href.t = "str" THEN content.href ELSE PyStr(<<>>)
        parts     == content.parts
        title     == parts[1].v \o <<" ">> \o parts[2].v
        timestamp == parse_html_time(parts[3])
        no_activity == [exc |-> "none", activities |-> <<>>]
    IN  IF header.t # "str" THEN no_activity              \* no .header-cell
        ELSE IF header \notin {PyStr(<<"Google", " ", "Suche">>), PyStr(<<"Search">>)}
             THEN no_activity
        ELSE IF content.t # "content" THEN no_activity    \* no .content-cell
        ELSE IF Len(parts) # 3 THEN no_activity
        ELSE IF timestamp.exc = "ParserError" THEN no_activity
        ELSE IF timestamp.exc # "none" THEN [exc |-> timestamp.exc, activities |-> <<>>]
        ELSE [exc |-> "none", activities |->
                <<PyDict([header   |-> header,
                          title    |-> PyStr(title),
                          titleUrl |-> title_url,
                          time     |-> timestamp.time,
                          products |-> PyList(<<PyStr(<<"Google", " ", "Suche">>)>>)])>>]

\* The loop over the outer cells: [exc, activities].
RECURSIVE parse_cells(_)
parse_cells(cells) ==
    IF cells = <<>> THEN [exc |-> "none", activities |-> <<>>]
    ELSE LET after(first) ==
                 IF first.exc # "none" THEN first
                 ELSE LET joined(rest) ==
                              [exc |-> rest.exc,
                               activities |-> IF rest.exc = "none"
                                              THEN first.activities \o rest.activities
                                              ELSE <<>>]
                      IN  joined(parse_cells(Tail(cells)))
         IN  after(parse_cell(Head(cells)))

\* parse_google_search_html(html_content): [exc, data], data the list of
\* activities or None.
parse_google_search_html(text) ==
    LET result(r) ==
            [exc  |-> r.exc,
             data |-> IF r.activities # <<>> THEN PyList(r.activities) ELSE PyNone]
    IN  result(IF text.kind = "html" THEN parse_cells(text.cells)
               ELSE [exc |-> "none", activities |-> <<>>])

(***************************************************************************)
(* find_google_search_export                                               *)
(***************************************************************************)

\* [i for i, f in enumerate(namelist()) if f.lower().endswith(ext)]
files_ending(members, ext) ==
    SelectSeq([i \in 1..Len(members) |-> i],
              LAMBDA i : endswith(lower(members[i].name), ext))

\* The loop over json_files ending at the first member that gives no data.
json_loop_stops_at_failure(members, json_files, k) ==
    IF k > Len(json_files) THEN [found |-> FALSE, data |-> PyNone, member |-> 0]
    ELSE LET m == members[json_files[k]]
             body(r) ==
                 IF r.exc = "none" /\ r.data # PyNone
                 THEN [found |-> TRUE, data |-> r.data, member |-> json_files[k]]
                 ELSE [found |-> FALSE, data |-> PyNone, member |-> 0]
         IN  body(parse_google_search_json(m))

\* The loop over json_files from position k on: [found, data, member].
RECURSIVE json_loop(_, _, _)
json_loop(members, json_files, k) ==
    IF k > Len(json_files) THEN [found |-> FALSE, data |-> PyNone, member |-> 0]
    ELSE LET m == members[json_files[k]]
             body(r) ==
                 IF r.exc = "none" /\ r.data # PyNone
                 THEN [found |-> TRUE, data |-> r.data, member |-> json_files[k]]
                 \* BadZipFile, UnicodeDecodeError: continue
                 ELSE json_loop(members, json_files, k + 1)
         IN  body(parse_google_search_json(m))

\* The first loop over html_files from position k on: [found, data, member,
\* exc], exc the exception of parse_google_search_html that the loop does
\* not take.
RECURSIVE html_loop(_, _, _)
html_loop(members, html_files, k) ==
    IF k > Len(html_files)
    THEN [found |-> FALSE, data |-> PyNone, member |-> 0, exc |-> "none"]
    ELSE LET m == members[html_files[k]]
             body(r) ==
                 IF m.state # "ok" THEN html_loop(members, html_files, k + 1)
                 ELSE IF r.exc # "none"
                 THEN [found |-> FALSE, data |-> PyNone, member |-> 0, exc |-> r.exc]
                 ELSE IF r.data # PyNone
                 THEN [found |-> TRUE, data |-> r.data, member |-> html_files[k],
                       exc |-> "none"]
                 ELSE html_loop(members, html_files, k + 1)
         IN  body(parse_google_search_html(m.text))

\* The marker looked for in every member, whatever its name.
marker_loop_all_members(members, html_files) ==
    \E k \in 1..Len(members) :
        members[k].state = "ok" /\ text_has_token(members[k].text, "Google")

\* The second loop over html_files: whether it raises NoGoogleSearchDataError.
marker_loop(members, html_files) ==
    \E k \in 1..Len(html_files) :
        LET m == members[html_files[k]]
        IN  m.state = "ok" /\ text_has_token(m.text, "Google")

\* find_google_search_export(zipfile_ref): [tag, data, member] with tag
\* "data" (data is returned; member is the member it was read from),
\* "NoGoogleSearchDataError" or "GoogleTakeoutNotFoundError" (raised), or
\* the exception parse_google_search_html raised.
find_google_search_export(members) ==
    LET json_files == files_ending(members, <<".", "json">>)
        html_files == files_ending(members, <<".", "html">>)
        third_loop ==
            IF marker_loop(members, html_files)
            THEN [tag |-> "NoGoogleSearchDataError", data |-> PyNone, member |-> 0]
            ELSE [tag |-> "GoogleTakeoutNotFoundError", data |-> PyNone, member |-> 0]
        after_html(from_html) ==
            IF from_html.exc # "none"
            THEN [tag |-> from_html.exc, data |-> PyNone, member |-> 0]
            ELSE IF from_html.found
            THEN [tag |-> "data", data |-> from_html.data, member |-> from_html.member]
            ELSE third_loop
        after_json(from_json) ==
            IF from_json.found
            THEN [tag |-> "data", data |-> from_json.data, member |-> from_json.member]
            ELSE after_html(html_loop(members, html_files, 1))
    IN  after_json(json_loop(members, json_files, 1))

(***************************************************************************)
(* Inputs of extract_search_data                                           *)
(***************************************************************************)

Https == <<"https", ":", "/", "/">>

HostGoogleCom == <<"www", ".", "google", ".", "com">>

HostGoogleDe == <<"www", ".", "google", ".", "de">>

\* https://example.com/test
UrlExample == Https \o <<"example", ".", "com">> \o <<"/", "test">>

\* https://www.google.com/search?q=test+query&hl=en
UrlSearch ==
    Https \o HostGoogleCom
    \o <<"/", "search", "?", "q", "=", "test", "+", "query", "&", "hl", "=", "en">>

\* https://www.google.com/maps
UrlMaps == Https \o HostGoogleCom \o <<"/", "maps">>

\* https://www.google.com/url?q=https://example.com/test&usg=A
UrlRedirect ==
    Https \o HostGoogleCom \o <<"/", "url", "?", "q", "=">> \o UrlExample
    \o <<"&", "usg", "=", "A">>

\* https://www.google.com/
UrlHomepage == Https \o HostGoogleCom \o <<"/">>

TitleUrls ==
    {PyStr(u) : u \in {
        UrlExample, UrlSearch, UrlMaps, UrlRedirect, UrlHomepage, <<>>,
        \* https://www.google.de/search?q=m%C3%BCnchen
        Https \o HostGoogleDe \o <<"/", "search", "?", "q", "=", "m", "%C3%BC",
           "nchen">>,
        \* https://www.google.com/search?q=
        Https \o HostGoogleCom \o <<"/", "search", "?", "q", "=">>,
        \* https://www.google.com/search?hl=en
        Https \o HostGoogleCom \o <<"/", "search", "?", "hl", "=", "en">>,
        \* https://maps.google.com/search?q=test
        Https \o <<"maps", ".", "google", ".", "com", "/", "search", "?", "q", "=",
           "test">>,
        \* https://www.google.de/url?q=https%3A%2F%2Fexample.com%2Ftest
        Https \o HostGoogleDe \o <<"/", "url", "?", "q", "=", "https", "%3A", "%2F",
           "%2F", "example", ".", "com", "%2F", "test">>,
        \* https://www.google.com/url?q=https://www.google.com/search%3Fq%3Dfoo
        Https \o HostGoogleCom \o <<"/", "url", "?", "q",
           "=">> \o Https \o HostGoogleCom \o <<"/", "search", "%3F", "q", "%3D", "foo">>,
        \* https://www.google.com/url?q=https://www.google.com/
        Https \o HostGoogleCom \o <<"/", "url", "?", "q",
           "=">> \o Https \o HostGoogleCom \o <<"/">>,
        \* https://www.google.com/url?q=
        Https \o HostGoogleCom \o <<"/", "url", "?", "q", "=">>,
        \* https://www.google.de
        Https \o HostGoogleDe,
        \* invalid_url
        <<"invalid_url">>,
        \* http://[bad
        <<"http", ":", "/", "/", "[", "bad">>}}
    \cup {PyNone, PyInt(5)}

Titles ==
    {PyStr(w) : w \in {<<"Some", " ", "search">>,
                       <<"Visited", " ", "example", " ", "website">>,
                       <<"Viewed", " ", "another", " ", "website">>,
                       <<"Example", " ", "Site", " ", "aufgerufen">>,
                       <<"Normal", " ", "result", " ", "angesehen">>,
                       <<"Viewed", " ", "Example", " ", "Site", " ", "aufgerufen">>,
                       <<"Visited", " ", "result", " ", "angesehen">>,
                       <<"Visited", " ", "Viewed", " ", "page">>,
                       <<"Visited", " ", "Site", " ", "aufgerufen">>,
                       <<"Visited">>,
                       Https \o <<"www", ".", "test-site", ".", "org", "/", "page">>}}
    \cup {PyNone, PyInt(5)}

Times ==
    {PyIsoTime(2025, 2, 9, 14, 39, 34, "Z"),
     \* around the start of the window, 2025-01-12T00:00:00 CET
     PyIsoTime(2025, 1, 11, 23, 59, 59, "+01:00"),
     PyIsoTime(2025, 1, 12, 0, 0, 0, "+01:00"),
     PyIsoTime(2025, 1, 11, 22, 59, 59, "Z"),
     PyIsoTime(2025, 1, 11, 23, 0, 0, "Z"),
     PyIsoTime(2025, 1, 11, 22, 59, 59, ""),
     PyIsoTime(2025, 1, 11, 23, 0, 0, ""),
     PyIsoTime(2025, 1, 11, 18, 30, 0, "-05:00"),
     \* around the end of the window, 2025-03-03T00:00:00 CET
     PyIsoTime(2025, 3, 2, 23, 59, 59, "+01:00"),
     PyIsoTime(2025, 3, 3, 0, 0, 0, "+01:00"),
     PyIsoTime(2025, 3, 3, 0, 0, 1, "+01:00"),
     PyIsoTime(2025, 3, 2, 22, 59, 59, "Z"),
     PyIsoTime(2025, 3, 2, 23, 0, 1, ""),
     PyIsoTime(2025, 3, 3, 1, 0, 1, "+02:00"),
     PyIsoTime(2025, 3, 3, 7, 30, 0, "+09:00"),
     PyIsoTime(2024, 2, 29, 12, 0, 0, "Z"),
     \* no timestamp
     PyStr(<<"yesterday">>), PyNone, PyInt(5)}

\* A record with all five fields.
Record(header, title, titleUrl, time, product) ==
    PyDict([header |-> PyStr(header), title |-> title, titleUrl |-> titleUrl,
            time |-> time, products |-> PyList(<<PyStr(product)>>)])

BaseTitle == PyStr(<<"Some", " ", "search">>)

BaseTime == PyIsoTime(2025, 2, 9, 14, 39, 34, "Z")

Search == <<"Search">>

GoogleSuche == <<"Google", " ", "Suche">>

Maps == <<"Maps">>

\* The elements the input lists are made of: the base record with one field
\* varied over its values, records of another product, records that lack
\* fields, and elements that are no mappings.
Items ==
    {Record(Search, t, PyStr(UrlRedirect), BaseTime, Search) : t \in Titles}
    \cup {Record(GoogleSuche, BaseTitle, u, BaseTime, GoogleSuche) : u \in TitleUrls}
    \cup {Record(Search, BaseTitle, PyStr(UrlSearch), tm, Search) : tm \in Times}
    \cup {Record(Maps, BaseTitle, PyStr(UrlMaps), BaseTime, Maps),
          Record(Search, PyStr(<<"Visited", " ", "example", " ", "website">>),
                 PyStr(UrlHomepage), BaseTime, Search),
          PyDict([header |-> PyStr(GoogleSuche)]),
          PyDict([header |-> PyStr(Search), title |-> BaseTitle,
                  titleUrl |-> PyStr(UrlSearch), time |-> BaseTime]),
          PyDict(<<>>),
          PyInt(5), PyNone, PyStr(<<"string">>),
          PyStr(<<"header", " ", "title", " ", "titleUrl", " ", "time", " ", "products">>),
          PyList(<<PyStr(<<"header">>)>>)}

\* The elements the longer input lists are made of: one of each kind (a
\* search, clicks, records the filters drop, elements the loop raises on).
CoreItems ==
    {Record(GoogleSuche, BaseTitle, PyStr(UrlSearch), BaseTime, GoogleSuche),
     Record(Search, PyStr(<<"Visited", " ", "example", " ", "website">>),
            PyStr(UrlRedirect), BaseTime, Search),
     Record(Search, BaseTitle, PyStr(UrlExample),
            PyIsoTime(2025, 1, 11, 18, 30, 0, "-05:00"), Search),
     Record(Search, PyStr(<<"Viewed", " ", "another", " ", "website">>),
            PyStr(UrlRedirect), BaseTime, Search),
     Record(Search, PyStr(<<"Viewed", " ", "Example", " ", "Site", " ", "aufgerufen">>),
            PyStr(UrlRedirect), BaseTime, Search),
     Record(Search, PyStr(<<"Visited", " ", "Viewed", " ", "page">>),
            PyStr(UrlRedirect), BaseTime, Search),
     Record(Search, BaseTitle, PyStr(UrlSearch),
            PyIsoTime(2025, 3, 3, 0, 0, 1, "+01:00"), Search),
     Record(Search, BaseTitle, PyStr(UrlHomepage), BaseTime, Search),
     Record(Maps, BaseTitle, PyStr(UrlMaps), BaseTime, Maps),
     Record(Search, BaseTitle, PyNone, BaseTime, Search),
     PyDict([header |-> PyStr(GoogleSuche)]),
     PyInt(5)}

\* The longest input list.
MaxLen == 3

\* The arguments extract_search_data is called with: lists, and values that
\* are no lists.
Arguments ==
    {PyList(l) : l \in {<<x>> : x \in Items}
                        \cup UNION {[1..n -> CoreItems] : n \in 0..MaxLen}}
    \cup {PyNone, PyStr(<<"string">>), PyInt(123),
          PyDict([key |-> PyStr(<<"value">>)])}

\* How often extract_search_data is called on the same object.
MaxCalls == 2

(***************************************************************************)
(* Files the user selects                                                  *)
(***************************************************************************)

Member(name, state, text) == [name |-> name, state |-> state, text |-> text]

\* The text of a member that json.load decodes to `value`.
JsonText(value) == [kind |-> "json", value |-> value]

HtmlText(cells, other) == [kind |-> "html", cells |-> cells, other |-> other]

Content(href, parts) == [t |-> "content", href |-> href, parts |-> parts]

HtmlTime(d, mo, y, h, mi, s, tzname) ==
    [t |-> "htmltime",
     v |-> [d |-> d, mo |-> mo, y |-> y, h |-> h, mi |-> mi, s |-> s, tzname |-> tzname]]

\* Takeout/MyActivity.json
NameActivityJson == <<"Takeout", "/", "MyActivity", ".", "json">>

\* Takeout/Maps/MyActivity.JSON
NameMapsJson == <<"Takeout", "/", "Maps", "/", "MyActivity", ".", "JSON">>

\* invalid.json
NameInvalidJson == <<"invalid", ".", "json">>

\* Takeout/MyActivity.HTML
NameActivityHtml == <<"Takeout", "/", "MyActivity", ".", "HTML">>

\* index.html
NameIndexHtml == <<"index", ".", "html">>

SearchRecord == Record(GoogleSuche, BaseTitle, PyStr(UrlSearch), BaseTime, GoogleSuche)

ClickRecord ==
    Record(Search, PyStr(<<"Visited", " ", "example", " ", "website">>),
           PyStr(UrlRedirect), BaseTime, Search)

MapsRecord == Record(Maps, PyStr(<<"Heidelberg", " ", "Castle">>), PyStr(UrlMaps), BaseTime, Maps)

\* A record without titleUrl.
PartialRecord ==
    PyDict([header |-> PyStr(Search), title |-> BaseTitle, time |-> BaseTime,
            products |-> PyList(<<PyStr(Search)>>)])

\* A block of the HTML export: a search under the German label.
SearchCell ==
    [header  |-> PyStr(GoogleSuche),
     content |-> Content(PyStr(UrlSearch),
                         <<PyStr(<<"Gesucht", " ", "nach">>), PyStr(<<"test", " ", "query">>),
                           HtmlTime(9, 2, 2025, 15, 39, 34, "MEZ")>>)]

\* A visit under the English label, its time in UTC.
VisitCell ==
    [header  |-> PyStr(Search),
     content |-> Content(PyStr(UrlRedirect),
                         <<PyStr(<<"Visited">>), PyStr(<<"example", " ", "website">>),
                           HtmlTime(9, 2, 2025, 14, 39, 42, "UTC")>>)]

\* A block of another product.
MapsCell ==
    [header  |-> PyStr(Maps),
     content |-> Content(PyStr(UrlMaps),
                         <<PyStr(<<"Viewed">>), PyStr(<<"Heidelberg", " ", "Castle">>),
                           HtmlTime(9, 2, 2025, 15, 40, 0, "MEZ")>>)]

\* A search block with two strings only, and one whose third string is no
\* timestamp; a block without header cell; one without content cell.
BrokenCells ==
    <<[header  |-> PyStr(Search),
       content |-> Content(PyNone, <<PyStr(<<"Searched">>), PyStr(<<"for">>)>>)],
      [header  |-> PyStr(Search),
       content |-> Content(PyNone, <<PyStr(<<"Searched">>), PyStr(<<"for">>),
                                     PyStr(<<"Details">>)>>)],
      [header |-> PyNone, content |-> PyNone],
      [header |-> PyStr(Search), content |-> PyNone]>>

Members ==
    {Member(NameActivityJson, "ok", JsonText(PyList(<<SearchRecord>>))),
     Member(NameActivityJson, "ok", JsonText(PyList(<<ClickRecord, MapsRecord>>))),
     Member(NameActivityJson, "ok", JsonText(PyList(<<SearchRecord, PyInt(5)>>))),
     Member(NameActivityJson, "ok", JsonText(PyList(<<SearchRecord, PartialRecord>>))),
     Member(NameActivityJson, "corrupt", JsonText(PyList(<<SearchRecord>>))),
     Member(NameMapsJson, "ok", JsonText(PyList(<<MapsRecord, SearchRecord>>))),
     Member(NameMapsJson, "ok", JsonText(PyList(<<ClickRecord>>))),
     Member(NameInvalidJson, "ok", JsonText(PyDict([wrong |-> PyStr(<<"structure">>)]))),
     Member(NameInvalidJson, "ok", [kind |-> "text", v |-> <<"not", " ", "json">>]),
     Member(NameActivityHtml, "ok", HtmlText(<<MapsCell, SearchCell, VisitCell>>, <<>>)),
     Member(NameActivityHtml, "not_utf8", HtmlText(<<SearchCell>>, <<"Google">>)),
     Member(NameActivityHtml, "ok", HtmlText(BrokenCells, <<>>)),
     Member(NameIndexHtml, "ok",
            HtmlText(<<>>, <<"Google", " ", "Data", " ", "Export", " ", "Archive">>)),
     Member(NameIndexHtml, "ok", HtmlText(<<MapsCell>>, <<"www", ".", "google", ".", "com">>)),
     \* notes.txt
     Member(<<"notes", ".", "txt">>, "ok", [kind |-> "text", v |-> <<"Google", " ", "Takeout">>])}

\* The most members an archive of the model has.
MaxMembers == 2

\* The archives of the model: member names are distinct, as zip tools write them.
Archives ==
    {m \in UNION {[1..n -> Members] : n \in 0..MaxMembers} :
        \A i, j \in DOMAIN m : m[i].name = m[j].name => i = j}

\* What the user can select: a zip archive, or a file zipfile.ZipFile cannot
\* open ("not_zip": BadZipFile; "unreadable": an IOError).
Files ==
    {[kind |-> "zip", members |-> m] : m \in Archives}
    \cup {[kind |-> "not_zip", members |-> <<>>], [kind |-> "unreadable", members |-> <<>>]}

\* The most file prompts process() shows in a run of the model.
MaxPrompts == 2

SessionIds == {<<"1">>, <<"session", "-", "42">>}

(***************************************************************************)
(* State                                                                   *)
(***************************************************************************)

VARIABLES
    sessionId,    \* process(sessionId)
    pc,           \* where process() stands: the yield it waits at
    zipfile_ref,  \* the file selected last
    located,      \* what find_google_search_export did on it
    json_data,    \* the object handed to extract_search_data, as the calls left it
    passed,       \* json_data as it was when first handed over
    data,         \* process(): the two tables, or None
    log,          \* the messages log_handler collected
    commands,     \* the commands process() yielded, in order
    payloads,     \* the payloads process() was resumed with, in order
    results       \* what each direct call of extract_search_data returned or raised

vars == <<sessionId, pc, zipfile_ref, located, json_data, passed, data, log,
          commands, payloads, results>>

NoFile == [kind |-> "none", members |-> <<>>]

NotLocated == [tag |-> "none", member |-> 0]

(***************************************************************************)
(* extract_search_data called on an argument, and again on the same object *)
(***************************************************************************)

InitExtract ==
    /\ json_data \in Arguments
    /\ passed = json_data
    /\ results = <<>>
    /\ sessionId = <<>>
    /\ pc = "extract_search_data"
    /\ zipfile_ref = NoFile
    /\ located = NotLocated
    /\ data = PyNone
    /\ log = <<>>
    /\ commands = <<>>
    /\ payloads = <<>>

CallExtract ==
    /\ pc = "extract_search_data"
    /\ Len(results) < MaxCalls
    /\ \E r \in {extract_search_data(json_data)} :
           /\ json_data' = r.data
           /\ results' = Append(results, [exc |-> r.exc, src |-> r.src,
                                          searches_df |-> r.searches_df,
                                          clicks_df |-> r.clicks_df])
    /\ UNCHANGED <<sessionId, pc, zipfile_ref, located, passed, data, log,
                   commands, payloads>>

NextExtract == CallExtract

SpecExtract == InitExtract /\ [][NextExtract]_vars

(***************************************************************************)
(* process(sessionId): commands, pages and donated values                  *)
(***************************************************************************)

key == <<"google-search-history">>

Info(msg) == [Level |-> "INFO", Message |-> msg]

Error(msg) == [Level |-> "ERROR", Message |-> msg]

\* logger.info(f"{key}: ...")
KeyInfo(msg) == Info(key \o <<": ">> \o msg)

\* log_handler.df.to_dict(): column -> {row index -> value}
to_dict(df) ==
    PyDict([Level   |-> [i \in 0..(Len(df) - 1) |-> df[i + 1].Level],
            Message |-> [i \in 0..(Len(df) - 1) |-> df[i + 1].Message]])

\* json.dumps(x): the JSON text that decodes to x
json_dumps(x) == [t |-> "json_text", v |-> x]

render_donation_page(body) ==
    [cmd |-> "CommandUIRender", platform |-> "Zip", body |-> body]

\* The retry confirmation rendered where the no-search-data page belongs.
render_retry_confirmation_page ==
    render_donation_page([t |-> "PropsUIPromptConfirm", ok |-> "Try again",
                          cancel |-> "Continue"])

render_no_search_data_page ==
    [cmd      |-> "CommandUIRender",
     platform |-> "NoGoogleSearchData",
     body     |-> [t |-> "PropsUIPromptConfirm", ok |-> "End"]]

retry_confirmation == [t |-> "PropsUIPromptConfirm", ok |-> "Try again", cancel |-> "Continue"]

prompt_file(extensions) == [t |-> "PropsUIPromptFileInput", extensions |-> extensions]

ConsentFormTable(id, data_frame) == [id |-> id, data_frame |-> data_frame]

\* prompt_consent(data, meta_data)
prompt_consent(d, meta_data) ==
    [t           |-> "PropsUIPromptConsentForm",
     tables      |-> IF d.t = "tuple"
                     THEN <<ConsentFormTable("searches", d.searches_df),
                            ConsentFormTable("clicks", d.clicks_df)>>
                     ELSE <<>>,
     meta_tables |-> <<ConsentFormTable("log_messages", meta_data)>>]

donate(k, json_string) ==
    [cmd |-> "CommandSystemDonate", key |-> k, json_string |-> json_string]

\* f"{sessionId}-{key}"
donation_key(sid) == sid \o <<"-">> \o key

no_search_data_value == json_dumps(PyStr(<<"{\"status\" : \"no-search-data\"}">>))

\* The no-search-data marker donated where the takeout marker belongs.
no_google_takeout_found_as_no_search_data == no_search_data_value

no_google_takeout_found_value ==
    json_dumps(PyStr(<<"{\"status\" : \"no-google-takeout-found\"}">>))

declined_value(df) ==
    json_dumps(PyDict([status |-> PyStr(<<"donation declined">>), log |-> to_dict(df)]))

\* What the consent form answers with PayloadJSON: the tables it was given,
\* with the rows the participant left in them (here: all, or none).
ConsentValues(form) ==
    {json_dumps(PyList([i \in DOMAIN form.tables |->
                           [id   |-> form.tables[i].id,
                            rows |-> form.tables[i].data_frame.rows]])),
     json_dumps(PyList([i \in DOMAIN form.tables |->
                           [id |-> form.tables[i].id, rows |-> <<>>]]))}

\* What the prompts and commands are answered with: a file prompt with
\* PayloadString or, left without a file, PayloadFalse; a confirmation with
\* PayloadTrue or PayloadFalse; the consent form with PayloadJSON or
\* PayloadFalse, or PayloadTrue standing for any other answer; a donation
\* with PayloadVoid.
Payload(type) == [type |-> type, value |-> PyNone]

FilePromptCommand == render_donation_page(prompt_file("application/zip"))

\* How many file prompts the run has shown.
NumPrompts == Cardinality({i \in DOMAIN commands : commands[i] = FilePromptCommand})

\* get_zipfile(filename) on a selected file: "invalid" where ZipFile raised
\* BadZipFile, which get_zipfile catches; exc names what ZipFile raised and
\* get_zipfile lets through (a file that cannot be read: an IOError).
get_zipfile(file) ==
    CASE file.kind = "zip"        -> [exc |-> "none", invalid |-> FALSE]
      [] file.kind = "not_zip"    -> [exc |-> "none", invalid |-> TRUE]
      [] file.kind = "unreadable" -> [exc |-> "IOError", invalid |-> FALSE]

\* What the try block of process() raises before find_google_search_export
\* is called: "none" where zipfile_ref is an archive.
open_error(file) ==
    IF get_zipfile(file).invalid THEN "BadZipFile" ELSE get_zipfile(file).exc

\* The except clauses with IOError left out of the last one.
except_clause_bad_zip_only(exc) ==
    CASE exc = "NoGoogleSearchDataError"    -> "no_search_data"
      [] exc = "GoogleTakeoutNotFoundError" -> "retry_not_found"
      [] exc = "BadZipFile"                 -> "retry_bad_file"
      [] OTHER                              -> "propagate"

\* The except clause of process() that takes an exception raised in the try
\* block; "propagate" where none does.
except_clause(exc) ==
    CASE exc = "NoGoogleSearchDataError"    -> "no_search_data"
      [] exc = "GoogleTakeoutNotFoundError" -> "retry_not_found"
      [] exc \in {"BadZipFile", "IOError"}  -> "retry_bad_file"
      [] OTHER                              -> "propagate"

\* STEP 2 is entered with data set by a successful extraction only.
consent_always_due(d) == TRUE

\* if data is not None
consent_due(d) == d # PyNone

(***************************************************************************)
(* process(sessionId): the steps between two yields                        *)
(***************************************************************************)

Init ==
    /\ sessionId \in SessionIds
    /\ pc = "prompt_file"
    /\ zipfile_ref = NoFile
    /\ located = NotLocated
    /\ json_data = PyNone
    /\ passed = PyNone
    /\ data = PyNone
    /\ results = <<>>
    /\ log = <<KeyInfo(<<"start">>), KeyInfo(<<"prompt file">>)>>
    /\ commands = <<FilePromptCommand>>
    /\ payloads = <<>>

\* while True: the next round of the loop, up to its yield.  The file of
\* the round before is not read again.
PromptAgain ==
    /\ NumPrompts < MaxPrompts
    /\ log' = Append(log, KeyInfo(<<"prompt file">>))
    /\ commands' = Append(commands, FilePromptCommand)
    /\ zipfile_ref' = NoFile
    /\ located' = NotLocated
    /\ pc' = "prompt_file"

\* STEP 2 up to its yield, or the end of the generator
Step2(more_log) ==
    IF consent_due(data')
    THEN /\ log' = log \o more_log \o <<KeyInfo(<<"prompt consent">>)>>
         /\ commands' =
              Append(commands, render_donation_page(prompt_consent(data', log')))
         /\ pc' = "consent"
    ELSE /\ log' = log \o more_log
         /\ commands' = commands
         /\ pc' = "done"

\* The file prompt is answered with something that is not a PayloadString.
FileNotSelected ==
    /\ pc = "prompt_file"
    /\ payloads' = Append(payloads, Payload("PayloadFalse"))
    /\ PromptAgain
    /\ UNCHANGED <<sessionId, json_data, passed, data, results>>

Searching == <<KeyInfo(<<"searching for Google Takeout data">>)>>

SearchingZip == Searching \o <<Info(<<"Searching for Google Search data in zip file">>)>>

\* The selected file is no zip archive, or cannot be read.
SelectBadFile ==
    /\ pc = "prompt_file"
    /\ \E file \in Files :
         /\ open_error(file) # "none"
         /\ zipfile_ref' = file
         /\ IF except_clause(open_error(file)) = "retry_bad_file"
            THEN /\ log' = log \o Searching
                              \o <<KeyInfo(<<"error processing file - ", file.kind>>)>>
                 /\ commands' =
                      Append(commands, render_donation_page(retry_confirmation))
                 /\ pc' = "retry_bad_file"
            ELSE /\ log' = log \o Searching
                 /\ commands' = commands
                 /\ pc' = "raised"
    /\ payloads' = Append(payloads, Payload("PayloadString"))
    /\ located' = NotLocated
    /\ UNCHANGED <<sessionId, json_data, passed, data, results>>

\* find_google_search_export raises NoGoogleSearchDataError.
SelectNoSearchData ==
    /\ pc = "prompt_file"
    /\ \E file \in Files :
         /\ open_error(file) = "none"
         /\ \E found \in {find_google_search_export(file.members)} :
                /\ found.tag = "NoGoogleSearchDataError"
                /\ located' = [tag |-> found.tag, member |-> found.member]
         /\ zipfile_ref' = file
    /\ payloads' = Append(payloads, Payload("PayloadString"))
    /\ log' = log \o SearchingZip
                  \o <<Error(<<"Google Takeout archive found but no search data">>)>>
    /\ commands' = Append(commands, donate(donation_key(sessionId), no_search_data_value))
    /\ pc' = "donated_no_search_data"
    /\ UNCHANGED <<sessionId, json_data, passed, data, results>>

\* The donation of the no-search-data marker is answered.
ShowNoSearchDataPage ==
    /\ pc = "donated_no_search_data"
    /\ payloads' = Append(payloads, Payload("PayloadVoid"))
    /\ commands' = Append(commands, render_no_search_data_page)
    /\ pc' = "no_search_data_page"
    /\ UNCHANGED <<sessionId, zipfile_ref, located, json_data, passed, data, log, results>>

\* find_google_search_export raises GoogleTakeoutNotFoundError.
SelectNotFound ==
    /\ pc = "prompt_file"
    /\ \E file \in Files :
         /\ open_error(file) = "none"
         /\ \E found \in {find_google_search_export(file.members)} :
                /\ found.tag = "GoogleTakeoutNotFoundError"
                /\ located' = [tag |-> found.tag, member |-> found.member]
         /\ zipfile_ref' = file
    /\ payloads' = Append(payloads, Payload("PayloadString"))
    /\ log' = log \o SearchingZip
                  \o <<Error(<<"No valid Google Takeout data found in zip file">>),
                       KeyInfo(<<"no valid Google Takeout data found">>)>>
    /\ commands' = Append(commands, render_donation_page(retry_confirmation))
    /\ pc' = "retry_not_found"
    /\ UNCHANGED <<sessionId, json_data, passed, data, results>>

\* retry_result is PayloadTrue: continue
TryAgain ==
    /\ pc \in {"retry_not_found", "retry_bad_file"}
    /\ payloads' = Append(payloads, Payload("PayloadTrue"))
    /\ PromptAgain
    /\ UNCHANGED <<sessionId, json_data, passed, data, results>>

\* After GoogleTakeoutNotFoundError, retry_result is not PayloadTrue.
GiveUpNotFound ==
    /\ pc = "retry_not_found"
    /\ payloads' = Append(payloads, Payload("PayloadFalse"))
    /\ commands' =
         Append(commands, donate(donation_key(sessionId), no_google_takeout_found_value))
    /\ pc' = "donated_not_found"
    /\ UNCHANGED <<sessionId, zipfile_ref, located, json_data, passed, data, log, results>>

\* After BadZipFile or IOError, retry_result is not PayloadTrue: break
GiveUpBadFile ==
    /\ pc = "retry_bad_file"
    /\ payloads' = Append(payloads, Payload("PayloadFalse"))
    /\ data' = data
    /\ Step2(<<KeyInfo(<<"user cancelled">>)>>)
    /\ UNCHANGED <<sessionId, zipfile_ref, located, json_data, passed, results>>

FoundLog(file, found) ==
    SearchingZip
        \o <<Info(<<"Found Google Search data in ">> \o file.members[found.member].name),
             KeyInfo(<<"found valid Google Takeout data">>),
             KeyInfo(<<"extracting search history">>)>>

\* find_google_search_export returns records and extract_search_data
\* returns the two tables: break
SelectTakeout ==
    /\ pc = "prompt_file"
    /\ \E file \in Files :
         /\ open_error(file) = "none"
         /\ \E found \in {find_google_search_export(file.members)} :
            \E r \in {extract_search_data(found.data)} :
                /\ found.tag = "data"
                /\ r.exc = "none"
                /\ located' = [tag |-> found.tag, member |-> found.member]
                /\ passed' = found.data
                /\ json_data' = r.data
                /\ results' = Append(results, [exc |-> r.exc, src |-> r.src,
                                               searches_df |-> r.searches_df,
                                               clicks_df |-> r.clicks_df])
                /\ data' = [t |-> "tuple", searches_df |-> r.searches_df,
                            clicks_df |-> r.clicks_df]
                /\ Step2(FoundLog(file, found))
         /\ zipfile_ref' = file
    /\ payloads' = Append(payloads, Payload("PayloadString"))
    /\ UNCHANGED sessionId

\* find_google_search_export returns records and extract_search_data
\* raises: no except clause of process() takes the exception.
SelectExtractRaises ==
    /\ pc = "prompt_file"
    /\ \E file \in Files :
         /\ open_error(file) = "none"
         /\ \E found \in {find_google_search_export(file.members)} :
            \E r \in {extract_search_data(found.data)} :
                /\ found.tag = "data"
                /\ r.exc # "none"
                /\ located' = [tag |-> found.tag, member |-> found.member]
                /\ passed' = found.data
                /\ json_data' = r.data
                /\ results' = Append(results, [exc |-> r.exc, src |-> r.src,
                                               searches_df |-> r.searches_df,
                                               clicks_df |-> r.clicks_df])
                /\ log' = log \o FoundLog(file, found)
         /\ zipfile_ref' = file
    /\ payloads' = Append(payloads, Payload("PayloadString"))
    /\ pc' = "raised"
    /\ UNCHANGED <<sessionId, data, commands>>

\* consent_result is PayloadJSON
ConsentGiven ==
    /\ pc = "consent"
    /\ \E value \in ConsentValues(commands[Len(commands)].body) :
         /\ payloads' = Append(payloads, [type |-> "PayloadJSON", value |-> value])
         /\ commands' = Append(commands, donate(donation_key(sessionId), value))
    /\ log' = Append(log, KeyInfo(<<"donate consent data">>))
    /\ pc' = "donated_consent"
    /\ UNCHANGED <<sessionId, zipfile_ref, located, json_data, passed, data, results>>

\* consent_result is PayloadFalse
ConsentDeclined ==
    /\ pc = "consent"
    /\ payloads' = Append(payloads, Payload("PayloadFalse"))
    /\ commands' = Append(commands, donate(donation_key(sessionId), declined_value(log)))
    /\ pc' = "donated_declined"
    /\ UNCHANGED <<sessionId, zipfile_ref, located, json_data, passed, data, log, results>>

\* consent_result is neither: the generator ends
ConsentOther ==
    /\ pc = "consent"
    /\ payloads' = Append(payloads, Payload("PayloadTrue"))
    /\ pc' = "done"
    /\ UNCHANGED <<sessionId, zipfile_ref, located, json_data, passed, data, log,
                   commands, results>>

\* The last command of the run is answered: return, or the end of the generator.
Return ==
    /\ pc \in {"no_search_data_page", "donated_not_found", "donated_consent",
               "donated_declined"}
    /\ payloads' = Append(payloads, Payload(IF pc = "no_search_data_page"
                                             THEN "PayloadTrue" ELSE "PayloadVoid"))
    /\ pc' = "done"
    /\ UNCHANGED <<sessionId, zipfile_ref, located, json_data, passed, data, log,
                   commands, results>>

Next ==
    \/ FileNotSelected
    \/ SelectBadFile
    \/ SelectNoSearchData
    \/ ShowNoSearchDataPage
    \/ SelectNotFound
    \/ TryAgain
    \/ GiveUpNotFound
    \/ GiveUpBadFile
    \/ SelectTakeout
    \/ SelectExtractRaises
    \/ ConsentGiven
    \/ ConsentDeclined
    \/ ConsentOther
    \/ Return

Spec == Init /\ [][Next]_vars

(***************************************************************************)
(* The two parsers called on the texts of export files                     *)
(***************************************************************************)

\* A search activity as Takeout exports it: the label of the product, the
\* two strings of its title, its link, and its time (UTC).
Activity(label, lead, text, href, d, mo, y, h, mi, s) ==
    [label |-> label, lead |-> lead, text |-> text, href |-> href,
     d |-> d, mo |-> mo, y |-> y, h |-> h, mi |-> mi, s |-> s]

\* The activity of test_parses_json_and_html_in_the_same_way, and the search
\* and the visit of sample_search_data under the English label.
Activities ==
    {Activity(GoogleSuche, <<"Gesucht", " ", "nach", ":">>, <<"takeout_20250113_mika_html">>,
              Https \o HostGoogleCom
              \o <<"/", "search", "?", "q", "=", "takeout_20250113_mika_html">>,
              13, 1, 2025, 7, 38, 9),
     Activity(GoogleSuche, <<"Gesucht", " ", "nach", ":">>, <<"test", " ", "query">>,
              UrlSearch, 9, 2, 2025, 14, 39, 34),
     Activity(Search, <<"Searched", " ", "for">>, <<"test", " ", "query">>,
              UrlSearch, 9, 2, 2025, 14, 39, 34),
     Activity(Search, <<"Visited">>, <<"example", " ", "website">>,
              UrlRedirect, 9, 2, 2025, 14, 39, 42)}

\* The activity as an entry of the JSON export: the product named as the
\* header names it, the time in UTC.
json_entry(a) ==
    Record(a.label, PyStr(a.lead \o <<" ">> \o a.text), PyStr(a.href),
           PyIsoTime(a.y, a.mo, a.d, a.h, a.mi, a.s, "Z"), a.label)

\* The activity as a block of the HTML export: under the German label the
\* time is written in MEZ (one hour ahead of UTC), under the English label
\* in UTC.
html_block(a) ==
    [header  |-> PyStr(a.label),
     content |-> Content(PyStr(a.href),
                         <<PyStr(a.lead), PyStr(a.text),
                           IF a.label = GoogleSuche
                           THEN HtmlTime(a.d, a.mo, a.y, a.h + 1, a.mi, a.s, "MEZ")
                           ELSE HtmlTime(a.d, a.mo, a.y, a.h, a.mi, a.s, "UTC")>>)]

\* The blocks the HTML texts are made of.
Cells ==
    {SearchCell, VisitCell, MapsCell,
     \* a search block without an anchor
     [header  |-> PyStr(Search),
      content |-> Content(PyNone, <<PyStr(<<"Searched", " ", "for">>), PyStr(<<"tests">>),
                                    HtmlTime(9, 2, 2025, 14, 40, 0, "UTC")>>)],
     \* a search block whose third string is a number too large for a datetime
     [header  |-> PyStr(Search),
      content |-> Content(PyNone, <<PyStr(<<"Searched", " ", "for">>), PyStr(<<"tests">>),
                                    PyStr(<<"08335394550">>)>>)]}
    \cup {BrokenCells[i] : i \in DOMAIN BrokenCells}
    \cup {html_block(a) : a \in Activities}

\* The most outer cells an HTML text of the model has.
MaxCells == 2

\* The texts parse_google_search_html is called on.
HtmlContents ==
    {HtmlText(cells, <<>>) : cells \in UNION {[1..n -> Cells] : n \in 0..MaxCells}}
    \cup {[kind |-> "text", v |-> <<"not", " ", "html">>]}

\* A file object in state `state` holding `text`.
FileObj(state, text) == [state |-> state, text |-> text]

\* The file objects parse_google_search_json is called on: texts (StringIO,
\* or a zip member that reads and decodes), a zip member that fails its
\* check, and one whose bytes are not UTF-8.
JsonFiles ==
    {FileObj("ok", JsonText(v)) : v \in
        {PyList(<<json_entry(a)>>) : a \in Activities}
        \cup {PyList(<<>>),
              PyList(<<PyDict(<<>>)>>),
              PyDict([not |-> PyStr(<<"an", " ", "array">>)]),
              PyInt(5),
              PyList(<<SearchRecord, ClickRecord>>),
              PyList(<<SearchRecord, PartialRecord>>),
              PyList(<<SearchRecord, PyInt(5)>>),
              PyList(<<PartialRecord, SearchRecord>>),
              PyList(<<MapsRecord, SearchRecord>>),
              PyList(<<PyInt(5), SearchRecord>>),
              PyList(<<PyStr(<<"header">>), SearchRecord>>),
              \* products is no list; products is a mapping
              PyList(<<PyDict([header |-> PyStr(Search), title |-> BaseTitle,
                               titleUrl |-> PyStr(UrlSearch), time |-> BaseTime,
                               products |-> PyInt(5)])>>),
              PyList(<<PyDict([header |-> PyStr(Search), title |-> BaseTitle,
                               titleUrl |-> PyStr(UrlSearch), time |-> BaseTime,
                               products |-> PyDict([Search |-> PyInt(1)])])>>)}}
    \cup {FileObj("ok", [kind |-> "text", v |-> <<"invalid", " ", "json">>]),
          FileObj("corrupt", JsonText(PyList(<<SearchRecord>>))),
          FileObj("not_utf8", JsonText(PyList(<<SearchRecord>>)))}

InitParse ==
    /\ results = <<>>
    /\ pc = "parse"
    /\ sessionId \in {<<>>}
    /\ json_data = PyNone
    /\ passed = PyNone
    /\ zipfile_ref = NoFile
    /\ located = NotLocated
    /\ data = PyNone
    /\ log = <<>>
    /\ commands = <<>>
    /\ payloads = <<>>

\* parse_google_search_json(file_obj)
CallParseJson ==
    /\ pc = "parse"
    /\ Len(results) < MaxCalls
    /\ \E file_obj \in JsonFiles :
         \E r \in {parse_google_search_json(file_obj)} :
            results' = Append(results, [fn  |-> "parse_google_search_json",
                                        arg |-> file_obj,
                                        exc |-> r.exc, ret |-> r.data])
    /\ UNCHANGED <<sessionId, pc, zipfile_ref, located, json_data, passed, data, log,
                   commands, payloads>>

\* parse_google_search_html(html_content)
CallParseHtml ==
    /\ pc = "parse"
    /\ Len(results) < MaxCalls
    /\ \E html_content \in HtmlContents :
         \E r \in {parse_google_search_html(html_content)} :
            results' = Append(results, [fn  |-> "parse_google_search_html",
                                        arg |-> html_content,
                                        exc |-> r.exc, ret |-> r.data])
    /\ UNCHANGED <<sessionId, pc, zipfile_ref, located, json_data, passed, data, log,
                   commands, payloads>>

NextParse ==
    \/ CallParseJson
    \/ CallParseHtml

SpecParse == InitParse /\ [][NextParse]_vars

(***************************************************************************)
(* is_google_search_url called on a value                                  *)
(***************************************************************************)

\* The values is_google_search_url is called on.
Urls ==
    TitleUrls
    \cup {PyStr(u) : u \in {
        \* https://www.google.co.uk/search?q=weather
        Https \o <<"www", ".", "google", ".", "co", ".", "uk", "/", "search", "?", "q",
           "=", "weather">>,
        \* https://www.example.com/search?q=test
        Https \o <<"www", ".", "example", ".", "com", "/", "search", "?", "q", "=",
           "test">>,
        \* https://www.google.com@example.com/search?q=test
        Https \o HostGoogleCom \o <<"@", "example", ".", "com", "/", "search", "?",
           "q", "=", "test">>,
        \* https://www.google.com/search?hl=en&q=a%26b&q=c
        Https \o HostGoogleCom \o <<"/", "search", "?", "hl", "=", "en", "&", "q", "=",
           "a", "%26", "b", "&", "q", "=", "c">>}}

InitUrl ==
    /\ results = <<>>
    /\ pc = "is_google_search_url"
    /\ sessionId \in {<<>>}
    /\ json_data = PyNone
    /\ passed = PyNone
    /\ zipfile_ref = NoFile
    /\ located = NotLocated
    /\ data = PyNone
    /\ log = <<>>
    /\ commands = <<>>
    /\ payloads = <<>>

\* is_google_search_url(url)
CallIsGoogleSearchUrl ==
    /\ pc = "is_google_search_url"
    /\ Len(results) < MaxCalls
    /\ \E url \in Urls :
         \E r \in {is_google_search_url(url)} :
            results' = Append(results, [fn  |-> "is_google_search_url",
                                        arg |-> url,
                                        exc |-> "none", ret |-> r])
    /\ UNCHANGED <<sessionId, pc, zipfile_ref, located, json_data, passed, data, log,
                   commands, payloads>>

NextUrl == CallIsGoogleSearchUrl

SpecUrl == InitUrl /\ [][NextUrl]_vars

(***************************************************************************)
(* Properties of extract_search_data                                       *)
(***************************************************************************)

\* The first call on the argument has happened.
Called == Len(results) >= 1

\* The first call returned its two tables.
Returned == Called /\ results[1].exc = "none"

\* The rows of both tables of a result.
AllRows(r) ==
    {r.searches_df.rows[i] : i \in 1..Len(r.searches_df.rows)}
    \cup {r.clicks_df.rows[i] : i \in 1..Len(r.clicks_df.rows)}

\* The positions in the argument of the records the rows of a result derive
\* from: the row numbered n derives from the n-th record kept.
RowSources(r) ==
    {r.src[n] : n \in {m \in 1..Len(r.src) : \E row \in AllRows(r) : row.Nummer.v = str(m)}}

\* A "Viewed" record: a mapping whose title starts with "Viewed " or ends
\* with " angesehen".
IsViewed(item) ==
    /\ item.t = "dict"
    /\ "title" \in DOMAIN item.v
    /\ item.v.title.t = "str"
    /\ \/ startswith(item.v.title.v, <<"Viewed", " ">>)
       \/ endswith(item.v.title.v, <<" ", "angesehen">>)

\* C3: no row of either table derives from a record whose title starts with
\* "Viewed " or ends with " angesehen", whatever else the title contains.
C3_ViewedNeverInTables ==
    (Returned /\ passed.t = "list") =>
        \A i \in RowSources(results[1]) : ~IsViewed(passed.v[i])

\* C6: the records that survive the filters are numbered 1..N in input order
\* with one counter: the Nummer values of both tables together are exactly
\* "1".."N", each used once, and increase within each table.
C6_SharedNumbering ==
    (Returned /\ passed.t = "list") =>
        LET r == results[1]
            N == Cardinality({i \in 1..Len(passed.v) :
                                filter_item(passed.v[i]).outcome = "keep"})
            S == r.searches_df.rows
            C == r.clicks_df.rows
            Increasing(rows) ==
                \A i, j \in 1..Len(rows) : i < j =>
                    \E a, b \in 1..N : /\ a < b
                                       /\ rows[i].Nummer.v = str(a)
                                       /\ rows[j].Nummer.v = str(b)
        IN  /\ Len(S) + Len(C) = N
            /\ {row.Nummer.v : row \in AllRows(r)} = {str(n) : n \in 1..N}
            /\ Cardinality(AllRows(r)) = N
            /\ Increasing(S)
            /\ Increasing(C)
            /\ Len(r.src) = N
            /\ \A a, b \in 1..N : a < b => r.src[a] < r.src[b]

\* Three records survive, and the searches table holds "1" and "3" while the
\* clicks table holds "2".
C6_Witness ==
    /\ Returned
    /\ Len(results[1].src) = 3
    /\ Len(results[1].searches_df.rows) = 2
    /\ results[1].searches_df.rows[1].Nummer.v = <<"1">>
    /\ results[1].searches_df.rows[2].Nummer.v = <<"3">>
    /\ Len(results[1].clicks_df.rows) = 1
    /\ results[1].clicks_df.rows[1].Nummer.v = <<"2">>

\* The rows of both tables numbered n.
RowsNumbered(r, n) == {row \in AllRows(r) : row.Nummer.v = str(n)}

\* Whether a URL is a redirect wrapper, www.google.<tld>/url?q=<value>, read
\* off the URL's parts.
IsWrapper(url) ==
    LET parsed == urlparse(url)
        fields == split(parsed.query, "&")
    IN  /\ startswith(parsed.netloc, <<"www", ".", "google", ".">>)
        /\ parsed.path = <<"/", "url">>
        /\ \E k \in 1..Len(fields) : startswith(fields[k], <<"q", "=">>) /\ Len(fields[k]) > 2

CET(mo, d, h, mi, s) == instant(PyIsoTime(2025, mo, d, h, mi, s, "+01:00").v)

\* A record that passes every filter but, possibly, the date window: it is
\* kept once its time is one inside the window.
PassesOtherFilters(item) ==
    /\ item.t = "dict"
    /\ \A k \in 1..Len(RequiredKeys) : RequiredKeys[k] \in DOMAIN item.v
    /\ item.v.time.t = "isotime"
    /\ filter_item([item EXCEPT !.v.time = PyIsoTime(2025, 2, 9, 14, 39, 34, "Z")]).outcome
         = "keep"

\* C8: a record that passes the other filters is kept exactly when its
\* instant (a zone-less time taken as UTC) lies in the window: from
\* 2025-01-12T00:00:00 CET on, and before 2025-03-03T00:00:00 CET;
\* 2025-01-12T00:00:00 and 2025-03-02T23:59:59 CET are in, 2025-01-11T23:59:59
\* and 2025-03-03T00:00:01 CET are out.  (The claim leaves the one instant
\* 2025-03-03T00:00:00 CET open, and so does this formula.)
C8_DateWindow ==
    (Returned /\ passed.t = "list") =>
        \A i \in 1..Len(passed.v) :
            PassesOtherFilters(passed.v[i]) =>
                LET at   == instant(passed.v[i].v.time.v)
                    kept == \E n \in 1..Len(results[1].src) : results[1].src[n] = i
                IN  /\ at # CET(3, 3, 0, 0, 0) =>
                          (kept <=> (CET(1, 12, 0, 0, 0) <= at /\ at < CET(3, 3, 0, 0, 0)))
                    /\ at = CET(1, 12, 0, 0, 0) => kept
                    /\ at = CET(1, 11, 23, 59, 59) => ~kept
                    /\ at = CET(3, 2, 23, 59, 59) => kept
                    /\ at = CET(3, 3, 0, 0, 1) => ~kept

\* A record timed 2025-01-11T23:00:00 without a zone, which as UTC is the
\* start of the window, 2025-01-12T00:00:00 CET, was kept.
C8_Witness ==
    /\ Returned
    /\ passed.t = "list"
    /\ Len(passed.v) = 1
    /\ PassesOtherFilters(passed.v[1])
    /\ passed.v[1].v.time = PyIsoTime(2025, 1, 11, 23, 0, 0, "")
    /\ results[1].src = <<1>>

\* A well-formed eligible record: a mapping with the five fields, a
\* timestamp inside the window, a str title that is no "Viewed" one and a
\* str titleUrl that parses and is no Google homepage.
WellFormedEligible(item) ==
    /\ PassesOtherFilters(item)
    /\ CET(1, 12, 0, 0, 0) <= instant(item.v.time.v)
    /\ instant(item.v.time.v) < CET(3, 3, 0, 0, 0)

\* C9: for every list argument, whatever the shape of its elements,
\* extract_search_data does not raise: it skips the offending elements and
\* emits the rows of every well-formed eligible record of the list.
C9_NeverRaisesOnLists ==
    (Called /\ passed.t = "list") =>
        /\ results[1].exc = "none"
        /\ \A i \in 1..Len(passed.v) :
               WellFormedEligible(passed.v[i]) => i \in RowSources(results[1])

\* C10: on an argument that is no list extract_search_data returns two empty
\* tables and does not raise; and whatever the argument, the searches table
\* it returns has exactly the columns Datum, Nummer, Suchbegriff and the
\* clicks table exactly Datum, Nummer, Suchergebnis, Link, rows or no rows.
C10_FixedColumns ==
    \A k \in 1..Len(results) :
        /\ passed.t # "list" =>
               /\ results[k].exc = "none"
               /\ results[k].searches_df.rows = <<>>
               /\ results[k].clicks_df.rows = <<>>
        /\ results[k].exc = "none" =>
               /\ results[k].searches_df.columns = <<"Datum", "Nummer", "Suchbegriff">>
               /\ results[k].clicks_df.columns = <<"Datum", "Nummer", "Suchergebnis", "Link">>
               /\ \A i \in 1..Len(results[k].searches_df.rows) :
                      DOMAIN results[k].searches_df.rows[i]
                        = {"Datum", "Nummer", "Suchbegriff"}
               /\ \A i \in 1..Len(results[k].clicks_df.rows) :
                      DOMAIN results[k].clicks_df.rows[i]
                        = {"Datum", "Nummer", "Suchergebnis", "Link"}

\* The call on None returned two tables without rows.
C10_Witness ==
    /\ Returned
    /\ results[1].searches_df.rows = <<>>
    /\ results[1].clicks_df.rows = <<>>
    /\ results[1].searches_df.columns = <<"Datum", "Nummer", "Suchbegriff">>
    /\ passed = PyNone

\* A record whose title, a str, starts with "Visited " or ends with
\* " aufgerufen" and is no "Viewed" one.
HasVisitMarker(item) ==
    /\ item.t = "dict"
    /\ "title" \in DOMAIN item.v
    /\ item.v.title.t = "str"
    /\ \/ startswith(item.v.title.v, <<"Visited", " ">>)
       \/ endswith(item.v.title.v, <<" ", "aufgerufen">>)
    /\ ~IsViewed(item)

\* The title without its marker: without the leading "Visited ", or else
\* without the trailing " aufgerufen".
WithoutMarker(title) ==
    IF startswith(title, <<"Visited", " ">>)
    THEN SubSeq(title, 3, Len(title))
    ELSE SubSeq(title, 1, Len(title) - 2)

\* C20: a record whose title starts with "Visited " or ends with
\* " aufgerufen" is not dropped because of the marker: where it passes the
\* other filters it gives a row, and where that row is a Click row its
\* Suchergebnis is the display form of the title without the marker.
C20_VisitedKeptAndStripped ==
    (Returned /\ passed.t = "list") =>
        \A i \in 1..Len(passed.v) :
            (/\ HasVisitMarker(passed.v[i])
             /\ WellFormedEligible([passed.v[i] EXCEPT !.v.title = PyStr(<<"Some", " ", "search">>)]))
                => /\ i \in RowSources(results[1])
                   /\ \A n \in 1..Len(results[1].src) : \A row \in RowsNumbered(results[1], n) :
                        (results[1].src[n] = i /\ "Suchergebnis" \in DOMAIN row)
                            => row.Suchergebnis
                                 = PyStr(format_title(WithoutMarker(passed.v[i].v.title.v)))

\* After a search, "Visited example website" gave the Click row numbered
\* "2" with the Suchergebnis "example website".
C20_Witness ==
    /\ Returned
    /\ passed.t = "list"
    /\ Len(passed.v) = 2
    /\ results[1].src = <<1, 2>>
    /\ passed.v[2].v.title = PyStr(<<"Visited", " ", "example", " ", "website">>)
    /\ Len(results[1].clicks_df.rows) = 1
    /\ results[1].clicks_df.rows[1].Nummer.v = <<"2">>
    /\ results[1].clicks_df.rows[1].Suchergebnis = PyStr(<<"example", " ", "website">>)

(***************************************************************************)
(* Properties of find_google_search_export and process                     *)
(***************************************************************************)

\* The members of the file selected last.
Selected == zipfile_ref.members

IsJsonName(name) == endswith(lower(name), <<".", "json">>)

IsHtmlName(name) == endswith(lower(name), <<".", "html">>)

\* The JSON members of `ms` that can be read and give activity data.
JsonYield(ms) ==
    {i \in DOMAIN ms : /\ IsJsonName(ms[i].name)
                       /\ ms[i].state = "ok"
                       /\ parse_google_search_json(ms[i]).data # PyNone}

\* The HTML members of `ms` that can be read and give activity data.
HtmlYield(ms) ==
    {i \in DOMAIN ms : /\ IsHtmlName(ms[i].name)
                       /\ ms[i].state = "ok"
                       /\ parse_google_search_html(ms[i].text).data # PyNone}

\* The HTML members of `ms` whose UTF-8 text holds "Google".
GoogleHtml(ms) ==
    {i \in DOMAIN ms : /\ IsHtmlName(ms[i].name)
                       /\ ms[i].state = "ok"
                       /\ text_has_token(ms[i].text, "Google")}

Least(S) == CHOOSE i \in S : \A j \in S : i <= j

HasSearchProduct(item) ==
    /\ item.t = "dict"
    /\ "products" \in DOMAIN item.v
    /\ item.v.products.t = "list"
    /\ \E k \in 1..Len(item.v.products.v) : item.v.products.v[k] \in SearchProducts

\* C4: every row of the two tables that extract_search_data makes from the
\* records find_google_search_export returned derives from a record whose
\* products hold "Search" or "Google Suche".
C4_OnlySearchProducts ==
    \A n \in DOMAIN results :
        results[n].exc = "none" =>
            \A k \in DOMAIN results[n].src :
                HasSearchProduct(passed.v[results[n].src[k]])

IsConsentPrompt(c) ==
    c.cmd = "CommandUIRender" /\ c.body.t = "PropsUIPromptConsentForm"

ConsentPrompts == {i \in DOMAIN commands : IsConsentPrompt(commands[i])}

Donations == {i \in DOMAIN commands : commands[i].cmd = "CommandSystemDonate"}

\* A donated value that is the "donation declined" status and the log, and
\* nothing else.
IsDeclinedMarker(value) ==
    /\ value.t = "json_text"
    /\ value.v.t = "dict"
    /\ DOMAIN value.v.v = {"status", "log"}
    /\ value.v.v.status = PyStr(<<"donation declined">>)
    /\ value.v.v.log = to_dict(log)

\* C5: the consent prompt is shown at most once, and only after
\* find_google_search_export and extract_search_data both succeeded for the
\* selected file, showing the tables extracted; a donated value is a status
\* marker or else the value an accepted consent prompt (PayloadJSON)
\* returned; after PayloadFalse the donation is the "donation declined"
\* marker.
C5_ConsentGated ==
    /\ Cardinality(ConsentPrompts) <= 1
    /\ \A i \in ConsentPrompts :
          /\ located.tag = "data"
          /\ results # <<>>
          /\ results[Len(results)].exc = "none"
          /\ commands[i].body.tables =
                <<ConsentFormTable("searches", results[Len(results)].searches_df),
                  ConsentFormTable("clicks", results[Len(results)].clicks_df)>>
          /\ (Len(payloads) >= i /\ payloads[i].type = "PayloadFalse")
                => /\ Len(commands) = i + 1
                   /\ i + 1 \in Donations
                   /\ IsDeclinedMarker(commands[i + 1].json_string)
    /\ \A i \in Donations :
          \/ commands[i].json_string
                \in {no_search_data_value, no_google_takeout_found_value}
          \/ /\ i - 1 \in ConsentPrompts
             /\ payloads[i - 1].type = "PayloadFalse"
             /\ IsDeclinedMarker(commands[i].json_string)
          \/ /\ i - 1 \in ConsentPrompts
             /\ payloads[i - 1].type = "PayloadJSON"
             /\ commands[i].json_string = payloads[i - 1].value

\* Consent was declined for tables that hold rows, and the marker donated.
C5_Witness ==
    /\ pc = "donated_declined"
    /\ data.searches_df.rows # <<>>
    /\ data.clicks_df.rows # <<>>
    /\ Len(commands) \in Donations

RetryCommand == [cmd |-> "CommandUIRender", platform |-> "Zip",
                 body |-> [t |-> "PropsUIPromptConfirm", ok |-> "Try again",
                           cancel |-> "Continue"]]

FilePrompts ==
    {i \in DOMAIN commands : /\ commands[i].cmd = "CommandUIRender"
                             /\ commands[i].body.t = "PropsUIPromptFileInput"}

IsRetryPrompt(c) ==
    c.cmd = "CommandUIRender" /\ c.platform = "Zip" /\ c.body.t = "PropsUIPromptConfirm"

\* The text of the no-search-data marker, as the donation carries it.
NoSearchDataText == PyStr(<<"{\"status\" : \"no-search-data\"}">>)

\* The text of the no-google-takeout-found marker.
NoGoogleTakeoutFoundText == PyStr(<<"{\"status\" : \"no-google-takeout-found\"}">>)

\* C11: when find_google_search_export raises NoGoogleSearchDataError,
\* process() issues exactly one donate command, carrying the no-search-data
\* marker, then renders the no-search-data page, then ends; after the error
\* no retry confirmation, file prompt or consent prompt is shown.
C11_NoSearchDataTerminal ==
    located.tag = "NoGoogleSearchDataError" =>
        \E i \in DOMAIN commands :
            /\ Donations = {i}
            /\ commands[i].json_string.v = NoSearchDataText
            /\ payloads[i - 1].type = "PayloadString"
            /\ pc \in {"donated_no_search_data", "no_search_data_page", "done"}
            /\ pc = "donated_no_search_data" <=> Len(commands) = i
            /\ pc # "donated_no_search_data"
                 => /\ Len(commands) = i + 1
                    /\ commands[i + 1].cmd = "CommandUIRender"
                    /\ commands[i + 1].platform = "NoGoogleSearchData"
            /\ ConsentPrompts = {}

\* After an earlier round that offered a retry, a file without search data
\* was selected, the marker donated, the page shown, and the run has ended.
C11_Witness ==
    /\ located.tag = "NoGoogleSearchDataError"
    /\ pc = "done"
    /\ Cardinality(FilePrompts) = 2
    /\ Len(commands) = 5

\* Where process() stands after GoogleTakeoutNotFoundError, and what its
\* next step is.
NotFoundStep ==
    pc = "retry_not_found" =>
        /\ payloads' # payloads
        /\ payloads'[Len(payloads')].type = "PayloadTrue"
             => /\ pc' = "prompt_file"
                /\ commands' = Append(commands, FilePromptCommand)
        /\ payloads'[Len(payloads')].type # "PayloadTrue"
             => /\ pc' = "donated_not_found"
                /\ Len(commands') = Len(commands) + 1
                /\ commands'[Len(commands')].cmd = "CommandSystemDonate"
                /\ commands'[Len(commands')].json_string.v = NoGoogleTakeoutFoundText

\* C12: when find_google_search_export raises GoogleTakeoutNotFoundError,
\* process() shows the retry confirmation, nothing donated so far; on
\* PayloadTrue the next step is a fresh file prompt; on any other answer it
\* issues exactly one donate command, carrying the no-google-takeout-found
\* marker, and ends without a consent prompt.
C12_NotFoundRetryOrAbandon ==
    /\ [](located.tag = "GoogleTakeoutNotFoundError"
            => /\ pc \in {"retry_not_found", "donated_not_found", "done"}
               /\ ConsentPrompts = {}
               /\ pc = "retry_not_found"
                    => /\ IsRetryPrompt(commands[Len(commands)])
                       /\ Donations = {}
               /\ pc # "retry_not_found"
                    => /\ Donations = {Len(commands)}
                       /\ commands[Len(commands)].json_string.v = NoGoogleTakeoutFoundText)
    /\ [](pc = "prompt_file" => Donations = {})
    /\ [][NotFoundStep]_vars

\* The retry after GoogleTakeoutNotFoundError was turned down and the marker
\* donated.
C12_Witness ==
    /\ located.tag = "GoogleTakeoutNotFoundError"
    /\ pc = "donated_not_found"
    /\ payloads[Len(payloads)].type = "PayloadFalse"

\* The next step of process() after a file that could not be opened.
BadFileStep ==
    (pc = "retry_bad_file" /\ payloads' # payloads
        /\ payloads'[Len(payloads')].type = "PayloadTrue")
        => /\ pc' = "prompt_file"
           /\ commands' = Append(commands, FilePromptCommand)

\* C13: a selected file that cannot be opened as a zip archive is never
\* fatal to process() and is not reported as one of the two named errors:
\* the retry confirmation is shown, and on PayloadTrue the next step is the
\* file prompt, as after GoogleTakeoutNotFoundError.
C13_BadFileOffersRetry ==
    /\ [](zipfile_ref.kind \in {"not_zip", "unreadable"}
            => /\ pc \in {"retry_bad_file", "done"}
               /\ located.tag = "none"
               /\ Donations = {}
               /\ pc = "retry_bad_file" => commands[Len(commands)] = RetryCommand)
    /\ [][BadFileStep]_vars

\* A file that could not be read was selected, the retry confirmation shown.
C13_Witness ==
    /\ zipfile_ref.kind = "unreadable"
    /\ pc = "retry_bad_file"
    /\ commands[Len(commands)] = RetryCommand

\* The status a donated payload decodes to: "none" where it does not decode
\* to an object with a status field.
StatusOf(value) ==
    IF value.t = "json_text" /\ value.v.t = "dict" /\ "status" \in DOMAIN value.v.v
    THEN value.v.v.status
    ELSE PyStr(<<"none">>)

\* C14: every donate command issued by process(sessionId) is keyed
\* "<sessionId>-google-search-history", and its payload is JSON that decodes
\* to the tables the consent prompt returned or to an object whose status
\* field is "no-search-data", "no-google-takeout-found" or "donation
\* declined", according to the branch taken.
C14_DonationKeyAndPayload ==
    \A i \in Donations :
        /\ commands[i].key = sessionId \o <<"-", "google-search-history">>
        /\ commands[i].json_string.t = "json_text"
        /\ CASE payloads[i - 1].type = "PayloadJSON"
                  -> commands[i].json_string = payloads[i - 1].value
             [] payloads[i - 1].type = "PayloadString"
                  -> StatusOf(commands[i].json_string) = PyStr(<<"no-search-data">>)
             [] IsConsentPrompt(commands[i - 1])
                  -> StatusOf(commands[i].json_string) = PyStr(<<"donation declined">>)
             [] OTHER
                  -> StatusOf(commands[i].json_string)
                       = PyStr(<<"no-google-takeout-found">>)

(***************************************************************************)
(* Properties of the parsers                                               *)
(***************************************************************************)

\* Two lists of records are equal in header, title, titleUrl and products,
\* record by record, and their times are the same instants.
SameRecords(x, y) ==
    /\ x.t = "list" /\ y.t = "list"
    /\ Len(x.v) = Len(y.v)
    /\ \A k \in DOMAIN x.v :
         /\ x.v[k].v.header = y.v[k].v.header
         /\ x.v[k].v.title = y.v[k].v.title
         /\ x.v[k].v.titleUrl = y.v[k].v.titleUrl
         /\ x.v[k].v.products = y.v[k].v.products
         /\ instant(x.v[k].v.time.v) = instant(y.v[k].v.time.v)

\* C15: for a search activity under either label, exported once as a JSON
\* entry and once as an HTML block, parse_google_search_json and
\* parse_google_search_html return the same number of records, equal in
\* header, title, titleUrl and products, with times that are the same
\* instant.
C15_ParsersAgree ==
    \A i, j \in DOMAIN results : \A a \in Activities :
        (/\ results[i].fn = "parse_google_search_json"
         /\ results[j].fn = "parse_google_search_html"
         /\ results[i].arg = FileObj("ok", JsonText(PyList(<<json_entry(a)>>)))
         /\ results[j].arg = HtmlText(<<html_block(a)>>, <<>>))
            => SameRecords(results[i].ret, results[j].ret)

\* C16: every record of the list find_google_search_export returns,
\* whichever parser produced it, has the five fields header, title,
\* titleUrl, time and products.
C16_ReturnedRecordsComplete ==
    located.tag = "data" =>
        \A k \in DOMAIN passed.v :
            /\ passed.v[k].t = "dict"
            /\ \A f \in {"header", "title", "titleUrl", "time", "products"} :
                 f \in DOMAIN passed.v[k].v

\* A products value holds "Search" or "Google Suche": as an element of a
\* list, or as a key of a mapping.
HoldsMarker(products) ==
    \/ /\ products.t = "list"
       /\ \E k \in DOMAIN products.v :
            products.v[k] \in {PyStr(<<"Search">>), PyStr(<<"Google", " ", "Suche">>)}
    \/ /\ products.t = "dict"
       /\ \E k \in DOMAIN products.v : k \in {"Search", "Google Suche"}

\* The text decodes as JSON to a non-empty list whose first element has the
\* five fields and products that hold a marker.
Qualifies(text) ==
    /\ text.kind = "json"
    /\ text.value.t = "list"
    /\ text.value.v # <<>>
    /\ text.value.v[1].t = "dict"
    /\ {"header", "title", "titleUrl", "time", "products"} \subseteq DOMAIN text.value.v[1].v
    /\ HoldsMarker(text.value.v[1].v.products)

\* C17: parse_google_search_json returns the full decoded sequence exactly
\* when the payload decodes as JSON to a non-empty list whose first element
\* has the five fields and products holding "Search" or "Google Suche"; for
\* every other payload it returns None; it never raises.
C17_JsonParserContract ==
    \A i \in DOMAIN results :
        results[i].fn = "parse_google_search_json"
            => /\ results[i].exc = "none"
               /\ results[i].ret = IF Qualifies(results[i].arg.text)
                                   THEN results[i].arg.text.value
                                   ELSE PyNone

\* A block whose label is "Google Suche" or "Search", whose content has
\* three strings, the third a timestamp.
QualifyingBlock(cell) ==
    /\ cell.header \in {PyStr(<<"Google", " ", "Suche">>), PyStr(<<"Search">>)}
    /\ cell.content # PyNone
    /\ Len(cell.content.parts) = 3
    /\ cell.content.parts[3].t = "htmltime"

\* The record holds the first two strings of the block joined as its
\* title, the href of the block or "" as its titleUrl, and one marker as
\* its products.
RecordOfBlock(record, cell) ==
    /\ record.v.header = cell.header
    /\ record.v.title
         = PyStr(cell.content.parts[1].v \o <<" ">> \o cell.content.parts[2].v)
    /\ record.v.titleUrl
         = IF cell.content.href = PyNone THEN PyStr(<<>>) ELSE cell.content.href
    /\ record.v.products.t = "list"
    /\ Len(record.v.products.v) = 1
    /\ record.v.products.v[1] \in {PyStr(<<"Search">>), PyStr(<<"Google", " ", "Suche">>)}

\* The blocks of a text, none where it is no HTML.
BlocksOf(text) == IF text.kind = "html" THEN text.cells ELSE <<>>

\* C18: parse_google_search_html returns one record, in document order, for
\* each block whose label is "Google Suche" or "Search", whose content has
\* three strings and whose third string parses as a timestamp, with the
\* first two strings joined as title, the href or "" as titleUrl and one
\* marker as products; every other block gives no record and does not stop
\* later blocks; the result is None when no block gives a record.
C18_HtmlParserContract ==
    \A i \in DOMAIN results :
        results[i].fn = "parse_google_search_html"
            => LET blocks == SelectSeq(BlocksOf(results[i].arg), QualifyingBlock)
               IN  /\ results[i].exc = "none"
                   /\ IF blocks = <<>> THEN results[i].ret = PyNone
                      ELSE /\ results[i].ret.t = "list"
                           /\ Len(results[i].ret.v) = Len(blocks)
                           /\ \A k \in DOMAIN blocks :
                                RecordOfBlock(results[i].ret.v[k], blocks[k])

(***************************************************************************)
(* Properties of is_google_search_url                                      *)
(***************************************************************************)

\* The host of a netloc: what follows its userinfo.
HostOf(netloc) ==
    IF contains(netloc, "@") THEN slice_from(netloc, find_any(netloc, {"@"}, 1))
    ELSE netloc

\* The fields of a query string that name the parameter q.
QFields(query) ==
    SelectSeq(split(query, "&"), LAMBDA f : Len(f) >= 2 /\ f[1] = "q" /\ f[2] = "=")

\* The url has a host www.google.<tld>, the path /search and a parameter q.
IsSearchUrl(url) ==
    /\ ~urlparse(url).err
    /\ startswith(HostOf(urlparse(url).netloc), <<"www", ".", "google", ".">>)
    /\ Len(HostOf(urlparse(url).netloc)) > 4
    /\ urlparse(url).path = <<"/", "search">>
    /\ QFields(urlparse(url).query) # <<>>

\* C19: is_google_search_url(url) returns (True, first URL-decoded value of
\* q) exactly when the host of url is www.google.<tld>, its path is /search
\* and a parameter q is present; for every other input it returns
\* (False, None); it never raises.
C19_SearchUrlContract ==
    \A i \in DOMAIN results :
        results[i].fn = "is_google_search_url"
            => /\ results[i].exc = "none"
               /\ results[i].ret =
                    IF results[i].arg.t = "str" /\ IsSearchUrl(results[i].arg.v)
                    THEN [is_search |-> TRUE,
                          query |-> PyStr(unquote_plus(
                              slice_from(QFields(urlparse(results[i].arg.v).query)[1], 2)))]
                    ELSE [is_search |-> FALSE, query |-> PyNone]

(***************************************************************************)
(* Purity of extract_search_data                                           *)
(***************************************************************************)

\* The tables of a result.
TablesOf(r) == <<r.searches_df, r.clicks_df>>

\* C21: extract_search_data is a pure function of its argument: once it has
\* been called, the list passed and every field of every record in it are
\* as they were before the call, and a second call on the same list returns
\* tables equal to those of the first call.
C21_PureFunction ==
    /\ Called => json_data = passed
    /\ (Len(results) >= 2 /\ Returned) =>
           /\ results[2].exc = "none"
           /\ TablesOf(results[2]) = TablesOf(results[1])

(***************************************************************************)
(* Donations of a run that has ended                                       *)
(***************************************************************************)

\* The generator has ended: by return, or by running off its last line.
Terminated == pc = "done"

\* C22: a run of process() that has ended has issued exactly one donate
\* command, whichever way it took through file selection, retry
\* confirmation and consent; no run has issued two.
C22_ExactlyOneDonation ==
    /\ Cardinality(Donations) <= 1
    /\ Terminated => Cardinality(Donations) = 1

(***************************************************************************)
(* The Datum of a row and the date window                                  *)
(***************************************************************************)

\* The calendar date, as "%d-%m-%Y", that the zone CET shows at an instant
\* of January to March 2025 (UTC+1 throughout).
CetDate(at) ==
    LET day   == (at + SecondsPerHour) \div SecondsPerDay
        mo    == IF day < 31 THEN 1 ELSE IF day < 59 THEN 2 ELSE 3
        first == IF day < 31 THEN 0 ELSE IF day < 59 THEN 31 ELSE 59
    IN  zfill(day - first + 1, 2) \o <<"-">> \o zfill(mo, 2) \o <<"-">> \o zfill(2025, 4)

\* The dates of the donation window: 12-01-2025 and the 50 days after it,
\* up to the date of end_dt.
WindowDates == {CetDate(start_dt + k * SecondsPerDay) : k \in 0..50}

\* C23: the Datum of every row is the calendar date that CET, the zone of
\* the date-window filter, shows at the instant of the record the row
\* derives from, and so a date of the donation window, whatever zone or
\* offset the record's time is given in.
C23_DatumInCET ==
    Returned =>
        \A n \in 1..Len(results[1].src) :
            \A row \in AllRows(results[1]) :
                row.Nummer.v = str(n) =>
                    /\ row.Datum
                         = PyStr(CetDate(instant(passed.v[results[1].src[n]].v.time.v)))
                    /\ row.Datum.v \in WindowDates

====
